---- MODULE Spec2Model ----
(***************************************************************************)
(* go-split: the API client of internal/api/client.go.                     *)
(*                                                                         *)
(* One Client is built by NewClient (and optionally WithCapture) and one   *)
(* logical Call runs on it.  Call is followed statement by statement: the  *)
(* request is built, http.Client.Do is invoked, the body is read, the      *)
(* status and the decoded body are validated, the exchange is optionally   *)
(* captured, and Call returns (text, err).  The http.Client carries the    *)
(* configured Timeout, whose timer runs from Do until the body has been    *)
(* read and interrupts whichever of the two is in progress.                *)
(***************************************************************************)
EXTENDS Integers, Sequences, FiniteSets, TLC

\* ---------------------------------------------------------------- bounds
\* Longest content array a response body carries.
MaxContent == 2

\* ------------------------------------------------------ policy constants
\* RetryPolicy.maxAttempts of the design document (1 initial + 3 retries).
maxAttempts == 4

\* ------------------------------------------------------------ value sets
\* HTTP statuses the server may answer with.
Statuses == {200, 204, 400, 429, 500, 503}

\* ContentBlock.Type and ContentBlock.Text values.
BlockTypes == {"text", "tool_use"}
Texts == {"", "X", "Y"}

\* ContentBlock: one element of Response.Content.
ContentBlock == [type : BlockTypes, text : Texts]

ContentLists == UNION {[1..k -> ContentBlock] : k \in 0..MaxContent}

\* The "error" member of a body as it is on the wire: absent, the JSON
\* null, or an object with a message.
ErrorFields == {"absent", "null", "object"}
Messages == {"", "boom"}

\* A response body on the wire.  wellFormed = FALSE is a body that is not
\* JSON of the Response shape (json.Unmarshal fails on it).
Bodies ==
    {b \in [wellFormed : BOOLEAN, content : ContentLists,
            errorField : ErrorFields, errorMessage : Messages] :
        /\ (b.errorField # "object") => (b.errorMessage = "")
        /\ (~b.wellFormed) => (b.content = <<>> /\ b.errorField = "absent")}

\* The nil *APIError and the nil error.
NilAPIError == [set |-> FALSE, message |-> ""]
NoErr == [kind |-> "nil", cause |-> "", status |-> 0, body |-> <<>>, message |-> ""]

\* The result slot of the extraction layer before anything is returned.
NoOut == [names |-> <<>>, code |-> <<>>, source |-> <<>>, test |-> <<>>,
          count |-> 0]

\* ------------------------------------------------------------------ state
VARIABLES
    endpointOK,     \* c.endpoint parses as a URL (http.NewRequest succeeds)
    timeout,        \* c.timeout = c.http.Timeout; 0 means no timeout
    captureDir,     \* c.captureDir; "" means capture is off
    pc,             \* position of Call
    attempts,       \* number of c.http.Do invocations of this Call
    waits,          \* durations of the sleeps Call has performed, in order
    resp,           \* <<[status, body]>> once Do has returned a response
    respBody,       \* <<body>> once io.ReadAll has returned the body
    deadlineFired,  \* the http.Client timer has fired
    text,           \* first return value of Call
    err,            \* second return value of Call
    captured,       \* number of captureExchange invocations
    captureErr,     \* error captureExchange returned ("" is nil); it is logged
    captureFiles,   \* the files captureExchange has written
    xop,            \* extraction function under evaluation ("none" during Call)
    xin,            \* its argument, a string as a sequence of characters
    xdone,          \* the function has returned
    xout,           \* its result
    xpanic,         \* the function panicked (index or slice out of range)
    cmd,            \* the command being run ("none" outside the commands)
    cpc,            \* position of the command's RunE function
    env,            \* what the command finds: flags, files, tools
    idx,            \* index of the command's loop
    res,            \* the command's result structure
    ret,            \* error returned by RunE ("" is nil)
    ran,            \* external tools run and API calls made, in order
    written,        \* files written by os.WriteFile, in order
    printed         \* values encoded to the command's output, in order

vars == <<endpointOK, timeout, captureDir, pc, attempts, waits, resp,
          respBody, deadlineFired, text, err, captured, captureErr,
          captureFiles, xop, xin, xdone, xout, xpanic, cmd, cpc, env, idx,
          res, ret, ran, written, printed>>

\* The state of the extraction layer, which Call never touches.
xvars == <<xop, xin, xdone, xout, xpanic>>

\* The state of the commands, which neither Call nor the extraction
\* functions touch.
cmdvars == <<cmd, cpc, env, idx, res, ret, ran, written, printed>>

\* No command is running.
CmdIdle ==
    /\ cmd = "none"
    /\ cpc = "start"
    /\ env = <<>>
    /\ idx = 0
    /\ res = <<>>
    /\ ret = ""
    /\ ran = <<>>
    /\ written = <<>>
    /\ printed = <<>>

config == <<endpointOK, timeout, captureDir>>

\* ----------------------------------------------------------- pure helpers
\* A failed return value.
Fail(kind, cause, status, body, message) ==
    [kind |-> kind, cause |-> cause, status |-> status, body |-> body,
     message |-> message]

\* json.Unmarshal(respBody, &apiResp): fails on a body that is not of the
\* Response shape; an absent or null "error" decodes to the nil pointer.
Unmarshal(body) ==
    IF ~body.wellFormed
    THEN [ok |-> FALSE, Content |-> <<>>, Error |-> NilAPIError]
    ELSE [ok |-> TRUE,
          Content |-> body.content,
          Error |-> IF body.errorField = "object"
                    THEN [set |-> TRUE, message |-> body.errorMessage]
                    ELSE NilAPIError]

\* Outcome as it would be if the last content element were taken.
OutcomeLastElement(status, body) ==
    IF status # 200
    THEN [text |-> "", err |-> Fail("API returned", "", status, <<body>>, "")]
    ELSE LET apiResp == Unmarshal(body) IN
         IF ~apiResp.ok
         THEN [text |-> "", err |-> Fail("parse response", "", 0, <<>>, "")]
         ELSE IF apiResp.Error.set
         THEN [text |-> "",
               err |-> Fail("API error", "", 0, <<>>, apiResp.Error.message)]
         ELSE IF Len(apiResp.Content) = 0
         THEN [text |-> "", err |-> Fail("empty response from API", "", 0, <<>>, "")]
         ELSE [text |-> apiResp.Content[Len(apiResp.Content)].text, err |-> NoErr]

\* Outcome as it would be without the empty-content check.
OutcomeNoEmptyCheck(status, body) ==
    IF status # 200
    THEN [text |-> "", err |-> Fail("API returned", "", status, <<body>>, "")]
    ELSE LET apiResp == Unmarshal(body) IN
         IF ~apiResp.ok
         THEN [text |-> "", err |-> Fail("parse response", "", 0, <<>>, "")]
         ELSE IF apiResp.Error.set
         THEN [text |-> "",
               err |-> Fail("API error", "", 0, <<>>, apiResp.Error.message)]
         ELSE IF Len(apiResp.Content) = 0
         THEN [text |-> "", err |-> NoErr]
         ELSE [text |-> apiResp.Content[1].text, err |-> NoErr]

\* Outcome as it would be without the check of the error member.
OutcomeIgnoreErrorField(status, body) ==
    IF status # 200
    THEN [text |-> "", err |-> Fail("API returned", "", status, <<body>>, "")]
    ELSE LET apiResp == Unmarshal(body) IN
         IF ~apiResp.ok
         THEN [text |-> "", err |-> Fail("parse response", "", 0, <<>>, "")]
         ELSE IF Len(apiResp.Content) = 0
         THEN [text |-> "", err |-> Fail("empty response from API", "", 0, <<>>, "")]
         ELSE [text |-> apiResp.Content[1].text, err |-> NoErr]

\* Outcome as it would be if a non-200 response still handed back the
\* text of its first content element next to the error.
OutcomeTextWithError(status, body) ==
    LET apiResp == Unmarshal(body) IN
    IF status # 200
    THEN [text |-> IF Len(apiResp.Content) > 0
                   THEN apiResp.Content[1].text ELSE "",
          err |-> Fail("API returned", "", status, <<body>>, "")]
    ELSE IF ~apiResp.ok
         THEN [text |-> "", err |-> Fail("parse response", "", 0, <<>>, "")]
         ELSE IF apiResp.Error.set
         THEN [text |-> "",
               err |-> Fail("API error", "", 0, <<>>, apiResp.Error.message)]
         ELSE IF Len(apiResp.Content) = 0
         THEN [text |-> "", err |-> Fail("empty response from API", "", 0, <<>>, "")]
         ELSE [text |-> apiResp.Content[1].text, err |-> NoErr]

\* The validation of a received response: status check, decode, error
\* field, empty content, first content element's Text.
Outcome(status, body) ==
    IF status # 200
    THEN [text |-> "", err |-> Fail("API returned", "", status, <<body>>, "")]
    ELSE LET apiResp == Unmarshal(body) IN
         IF ~apiResp.ok
         THEN [text |-> "", err |-> Fail("parse response", "", 0, <<>>, "")]
         ELSE IF apiResp.Error.set
         THEN [text |-> "",
               err |-> Fail("API error", "", 0, <<>>, apiResp.Error.message)]
         ELSE IF Len(apiResp.Content) = 0
         THEN [text |-> "", err |-> Fail("empty response from API", "", 0, <<>>, "")]
         ELSE [text |-> apiResp.Content[1].text, err |-> NoErr]

\* ------------------------------------------------------------------- Init
\* The Client after NewClient and the optional WithCapture, before Call.
Init ==
    /\ endpointOK \in BOOLEAN
    /\ timeout \in {0, 1}
    /\ captureDir \in {"", "dir"}
    /\ pc = "start"
    /\ attempts = 0
    /\ waits = <<>>
    /\ resp = <<>>
    /\ respBody = <<>>
    /\ deadlineFired = FALSE
    /\ text = ""
    /\ err = NoErr
    /\ captured = 0
    /\ captureErr = ""
    /\ captureFiles = {}
    /\ xop = "none"
    /\ xin = <<>>
    /\ xdone = FALSE
    /\ xout = NoOut
    /\ xpanic = FALSE
    /\ CmdIdle

\* ---------------------------------------------------------------- actions
\* Call, up to the built request: json.Marshal of a Request cannot fail;
\* http.NewRequest fails on an endpoint that is not a URL.
BuildRequest ==
    /\ pc = "start"
    /\ IF endpointOK
       THEN /\ pc' = "send"
            /\ UNCHANGED <<text, err>>
       ELSE /\ pc' = "done"
            /\ text' = ""
            /\ err' = Fail("create request", "", 0, <<>>, "")
    /\ UNCHANGED <<config, attempts, waits, resp, respBody, deadlineFired,
                   captured, captureErr, captureFiles, xvars, cmdvars>>

\* c.http.Do(httpReq) is invoked: one attempt starts and the client's
\* timer (if any) starts with it.
Send ==
    /\ pc = "send"
    /\ attempts' = attempts + 1
    /\ pc' = "inflight"
    /\ UNCHANGED <<config, waits, resp, respBody, deadlineFired, text, err,
                   captured, captureErr, captureFiles, xvars, cmdvars>>

\* DoReturn as it would be if a transport error sent Call back to Do
\* with an attempt budget that is off by one.
DoReturnRetry ==
    /\ pc = "inflight"
    /\ \/ /\ pc' = IF attempts <= maxAttempts THEN "send" ELSE "done"
          /\ text' = ""
          /\ err' = Fail("http request", "network", 0, <<>>, "")
          /\ UNCHANGED resp
       \/ \E s \in Statuses, b \in Bodies :
            /\ resp' = <<[status |-> s, body |-> b]>>
            /\ pc' = "read"
            /\ UNCHANGED <<text, err>>
    /\ UNCHANGED <<config, attempts, waits, respBody, deadlineFired,
                   captured, captureErr, captureFiles, xvars, cmdvars>>

\* Do returns: a transport error, or a response with a status and a body
\* still to be read.
DoReturn ==
    /\ pc = "inflight"
    /\ \/ /\ pc' = "done"
          /\ text' = ""
          /\ err' = Fail("http request", "network", 0, <<>>, "")
          /\ UNCHANGED resp
       \/ \E s \in Statuses, b \in Bodies :
            /\ resp' = <<[status |-> s, body |-> b]>>
            /\ pc' = "read"
            /\ UNCHANGED <<text, err>>
    /\ UNCHANGED <<config, attempts, waits, respBody, deadlineFired,
                   captured, captureErr, captureFiles, xvars, cmdvars>>

\* io.ReadAll(resp.Body): the whole body, or a read error.
ReadBody ==
    /\ pc = "read"
    /\ \/ /\ respBody' = <<resp[1].body>>
          /\ pc' = "validate"
          /\ UNCHANGED <<text, err>>
       \/ /\ pc' = "done"
          /\ text' = ""
          /\ err' = Fail("read response", "network", 0, <<>>, "")
          /\ UNCHANGED respBody
    /\ UNCHANGED <<config, attempts, waits, resp, deadlineFired,
                   captured, captureErr, captureFiles, xvars, cmdvars>>

\* TimerFire as it would be if the timer did not interrupt the request.
TimerFireIgnored ==
    /\ timeout > 0
    /\ pc \in {"inflight", "read"}
    /\ ~deadlineFired
    /\ deadlineFired' = TRUE
    /\ UNCHANGED <<config, pc, attempts, waits, resp, respBody, text, err,
                   captured, captureErr, captureFiles, xvars, cmdvars>>

\* TimerFire as it would be if the timer covered Do and not the read of
\* the body.
TimerFireDoOnly ==
    /\ timeout > 0
    /\ pc = "inflight"
    /\ deadlineFired' = TRUE
    /\ text' = ""
    /\ err' = Fail("http request", "timeout", 0, <<>>, "")
    /\ pc' = "done"
    /\ UNCHANGED <<config, attempts, waits, resp, respBody,
                   captured, captureErr, captureFiles, xvars, cmdvars>>

\* The http.Client Timeout elapses while the request is in flight or the
\* body is being read: the operation in progress fails and Call returns.
TimerFire ==
    /\ timeout > 0
    /\ pc \in {"inflight", "read"}
    /\ deadlineFired' = TRUE
    /\ text' = ""
    /\ err' = Fail(IF pc = "inflight" THEN "http request" ELSE "read response",
                   "timeout", 0, <<>>, "")
    /\ pc' = "done"
    /\ UNCHANGED <<config, attempts, waits, resp, respBody,
                   captured, captureErr, captureFiles, xvars, cmdvars>>

\* HandleResponse as it would be if every failed validation were retried
\* while the attempt budget lasts.
HandleResponseRetry ==
    /\ pc = "validate"
    /\ LET r == Outcome(resp[1].status, respBody[1]) IN
         /\ text' = r.text
         /\ err' = r.err
         /\ pc' = IF r.err = NoErr
                  THEN (IF captureDir # "" THEN "capture" ELSE "done")
                  ELSE (IF attempts < maxAttempts THEN "send" ELSE "done")
    /\ UNCHANGED <<config, attempts, waits, resp, respBody, deadlineFired,
                   captured, captureErr, captureFiles, xvars, cmdvars>>

\* HandleResponse as it would be if the exchange were captured whatever
\* the validation said.
HandleResponseCaptureAlways ==
    /\ pc = "validate"
    /\ LET r == Outcome(resp[1].status, respBody[1]) IN
         /\ text' = r.text
         /\ err' = r.err
         /\ pc' = IF captureDir # "" THEN "capture" ELSE "done"
    /\ UNCHANGED <<config, attempts, waits, resp, respBody, deadlineFired,
                   captured, captureErr, captureFiles, xvars, cmdvars>>

\* Validation of the response that was read; on success Call either
\* returns or, with capture enabled, goes on to captureExchange.
HandleResponse ==
    /\ pc = "validate"
    /\ LET r == Outcome(resp[1].status, respBody[1]) IN
         /\ text' = r.text
         /\ err' = r.err
         /\ pc' = IF r.err = NoErr /\ captureDir # "" THEN "capture" ELSE "done"
    /\ UNCHANGED <<config, attempts, waits, resp, respBody, deadlineFired,
                   captured, captureErr, captureFiles, xvars, cmdvars>>

\* The errors captureExchange can return: MkdirAll, the write of the
\* request file, the write of the response file.
CaptureErrors == {"create capture dir", "write request", "write response"}

\* The files present once captureExchange has returned e.
FilesWritten(e) ==
    CASE e = "create capture dir" -> {}
      [] e = "write request" -> {}
      [] e = "write response" -> {"request"}
      [] OTHER -> {"request", "response"}

\* Capture as it would be if a capture error were returned by Call.
CaptureEscalating ==
    /\ pc = "capture"
    /\ captured' = captured + 1
    /\ \E e \in CaptureErrors \cup {""} :
         /\ captureErr' = e
         /\ captureFiles' = FilesWritten(e)
         /\ IF e = ""
            THEN UNCHANGED <<text, err>>
            ELSE /\ text' = ""
                 /\ err' = Fail("capture", e, 0, <<>>, "")
    /\ pc' = "done"
    /\ UNCHANGED <<config, attempts, waits, resp, respBody, deadlineFired,
                   xvars, cmdvars>>

\* captureExchange: MkdirAll and two WriteFile calls, any of which may
\* fail; a failure is logged and Call returns the text all the same.
Capture ==
    /\ pc = "capture"
    /\ captured' = captured + 1
    /\ \E e \in CaptureErrors \cup {""} :
         /\ captureErr' = e
         /\ captureFiles' = FilesWritten(e)
    /\ pc' = "done"
    /\ UNCHANGED <<config, attempts, waits, resp, respBody, deadlineFired,
                   text, err, xvars, cmdvars>>

Next ==
    \/ BuildRequest
    \/ Send
    \/ DoReturn
    \/ ReadBody
    \/ TimerFire
    \/ HandleResponse
    \/ Capture

Spec == Init /\ [][Next]_vars

\* Call's own steps run to completion and a timer that has been set
\* fires; the server owes nothing: Do may never return and the body may
\* never end.
SpecLive ==
    /\ Init /\ [][Next]_vars
    /\ WF_vars(BuildRequest)
    /\ WF_vars(Send)
    /\ WF_vars(TimerFire)
    /\ WF_vars(HandleResponse)
    /\ WF_vars(Capture)

\* ------------------------------------------------- classification of the
\* returned failure, after the design document's taxonomy
\* Network, RateLimited or ServerError: the retryable failures.
RetryableFailure ==
    \/ err.cause = "network"
    \/ err.kind = "API returned" /\ err.status \in {429, 500, 503}

\* ClientError, Protocol or Cancelled: the terminal failures.
TerminalFailure ==
    \/ err.kind = "API returned" /\ err.status = 400
    \/ err.kind \in {"parse response", "empty response from API"}
    \/ err.cause = "timeout"

\* A response has been received and its body read in full.
BodyRead == resp # <<>> /\ respBody # <<>>

\* The body that was read is JSON of the Response shape without a
\* populated error member.
DecodesWithoutError ==
    /\ BodyRead
    /\ resp[1].status = 200
    /\ respBody[1].wellFormed
    /\ respBody[1].errorField # "object"

\* ----------------------------------------------------------------- claims
\* C1: when every attempt fails with a retryable failure and the deadline
\* does not expire, Call makes exactly maxAttempts attempts and returns a
\* "retries exhausted" failure.
C1_RetriesExhausted ==
    (pc = "done" /\ RetryableFailure /\ ~deadlineFired)
        => (attempts = maxAttempts /\ err.kind = "retries exhausted")

\* C2: a terminal failure (ClientError, Protocol, Cancelled) is returned
\* at once: Call has returned as soon as the failure is observed, and no
\* attempt is started after it.
C2_TerminalNotRetried ==
    /\ [](TerminalFailure => (pc = "done" /\ text = "" /\ attempts >= 1))
    /\ [][TerminalFailure => attempts' = attempts]_vars

C2_Witness ==
    /\ pc = "done"
    /\ err.kind = "API returned"
    /\ err.status = 400
    /\ attempts = 1

\* C3: the number of attempts started by one logical Call never exceeds
\* RetryPolicy.maxAttempts.
C3_AttemptsBounded == attempts <= maxAttempts

C3_Witness ==
    /\ pc = "done"
    /\ err.kind = "http request"
    /\ err.cause = "network"
    /\ attempts >= 1

\* C4: once the deadline has elapsed Call has returned a timeout failure
\* with no text, and no further attempt is started.
C4_DeadlineEndsCall ==
    /\ [](deadlineFired =>
            (pc = "done" /\ err # NoErr /\ err.cause = "timeout" /\ text = ""))
    /\ [][deadlineFired => attempts' = attempts]_vars

C4_Witness ==
    /\ deadlineFired
    /\ pc = "done"
    /\ attempts = 1
    /\ resp = <<>>
    /\ err.kind = "http request"

\* C5: a Call whose attempts fail retryably waits 1, 2 and 4 time-units
\* before retry attempts 1, 2 and 3, and nothing else.
C5_BackoffWaits ==
    (pc = "done" /\ RetryableFailure /\ ~deadlineFired)
        => (waits = [k \in 1..(maxAttempts - 1) |-> 2 ^ (k - 1)])

\* C6: a 200 response that decodes to a non-empty content list with no
\* error member makes Call return the first element's text and a nil error.
C6_FirstContentText ==
    (pc = "done" /\ DecodesWithoutError /\ Len(respBody[1].content) > 0)
        => (err = NoErr /\ text = respBody[1].content[1].text)

C6_Witness ==
    /\ pc = "done"
    /\ DecodesWithoutError
    /\ Len(respBody[1].content) = 2
    /\ respBody[1].content[1].text = "X"
    /\ respBody[1].content[2].text = "Y"
    /\ text = "X"

\* C7: a 200 response with an empty content array makes Call return the
\* empty-response failure and no text, after exactly one attempt.
C7_EmptyContentFails ==
    (pc \in {"capture", "done"} /\ DecodesWithoutError
        /\ Len(respBody[1].content) = 0)
        => /\ pc = "done"
           /\ err.kind = "empty response from API"
           /\ text = ""
           /\ attempts = 1

C7_Witness ==
    /\ pc = "done"
    /\ DecodesWithoutError
    /\ respBody[1].content = <<>>
    /\ err.kind = "empty response from API"

\* C8: Call returns success only if the first content unit of the 200
\* response is of type text.
C8_TextTypedOnly ==
    (pc = "done" /\ err = NoErr)
        => /\ BodyRead
           /\ Len(respBody[1].content) > 0
           /\ respBody[1].content[1].type = "text"

\* C9: a response with a non-200 status, or a 200 response whose error
\* member is populated, is never a success: Call returns a failure and an
\* empty text, and the failure carries the body or the error message.
C9_FailureResponses ==
    /\ (resp # <<>> /\ pc \in {"capture", "done"} /\ resp[1].status # 200)
          => /\ pc = "done"
             /\ err # NoErr
             /\ text = ""
             /\ BodyRead =>
                  /\ err.kind = "API returned"
                  /\ err.status = resp[1].status
                  /\ err.body = respBody
    /\ (BodyRead /\ pc \in {"capture", "done"} /\ resp[1].status = 200
          /\ respBody[1].wellFormed /\ respBody[1].errorField = "object")
          => /\ pc = "done"
             /\ err.kind = "API error"
             /\ err.message = respBody[1].errorMessage
             /\ text = ""

C9_Witness ==
    /\ pc = "done"
    /\ BodyRead
    /\ resp[1].status = 200
    /\ respBody[1].errorField = "object"
    /\ respBody[1].errorMessage = "boom"
    /\ Len(respBody[1].content) > 0
    /\ respBody[1].content[1].text = "X"
    /\ err.kind = "API error"

\* C10: every return of Call is a success (nil error) or a failure (an
\* error and the empty text), never an error together with a text.
C10_SuccessXorFailure ==
    (pc = "done") =>
        /\ (err = NoErr) \/ (err # NoErr /\ text = "")
        /\ ~((err = NoErr) /\ (err # NoErr /\ text = ""))

C10_Witness ==
    /\ pc = "done"
    /\ BodyRead
    /\ resp[1].status = 500
    /\ Len(respBody[1].content) > 0
    /\ respBody[1].content[1].text = "Y"
    /\ err.kind = "API returned"
    /\ text = ""

\* C11: a failure of the Exchange Recorder (directory creation or either
\* file write) never changes what Call returns: with capture enabled the
\* text of the first content element and a nil error are returned whether
\* the capture succeeded or failed.
C11_CaptureNeverEscalates ==
    (pc = "done" /\ captured > 0)
        => /\ captureDir # ""
           /\ err = NoErr
           /\ text = respBody[1].content[1].text

C11_Witness ==
    /\ pc = "done"
    /\ captured = 1
    /\ captureErr = "write response"
    /\ captureFiles = {"request"}
    /\ err = NoErr
    /\ text = "X"

(***************************************************************************)
(* The extraction layer of internal/cmd/generate_helpers.go.               *)
(*                                                                         *)
(* A string is a sequence of characters, a character a string constant.    *)
(* The functions of package strings are defined on such sequences    *)
(* with Go's meaning; indices returned by Index and LastIndex and taken by *)
(* Slice are Go's (0-based, -1 for "not found").                           *)
(***************************************************************************)

\* ---------------------------------------------------------------- bounds
\* Longest input of cleanCode, in tokens of CodeTokens.
MaxCodeTokens == 6

\* ----------------------------------------------------- package strings
\* unicode.IsSpace on the characters of the model.
IsSpace(c) == c \in {" ", "\t", "\n", "\r", "\f"}

Min(S) == CHOOSE m \in S : \A n \in S : m <= n
Max(S) == CHOOSE m \in S : \A n \in S : m >= n

\* s[a:b]
Slice(s, a, b) == SubSeq(s, a + 1, b)

\* strings.Trim(s, cutset), cutset given as a set of characters.
Trim(s, cutset) ==
    LET keep == {i \in 1..Len(s) : s[i] \notin cutset}
    IN  IF keep = {} THEN <<>> ELSE SubSeq(s, Min(keep), Max(keep))

\* strings.TrimSpace(s)
TrimSpace(s) ==
    LET keep == {i \in 1..Len(s) : ~IsSpace(s[i])}
    IN  IF keep = {} THEN <<>> ELSE SubSeq(s, Min(keep), Max(keep))

\* strings.HasPrefix(s, prefix) and strings.HasSuffix(s, suffix)
HasPrefix(s, prefix) ==
    Len(s) >= Len(prefix) /\ SubSeq(s, 1, Len(prefix)) = prefix

HasSuffix(s, suffix) ==
    Len(s) >= Len(suffix)
        /\ SubSeq(s, Len(s) - Len(suffix) + 1, Len(s)) = suffix

\* strings.Index(s, c) and strings.LastIndex(s, c) for a one-character c.
Index(s, c) ==
    LET at == {i \in 1..Len(s) : s[i] = c}
    IN  IF at = {} THEN -1 ELSE Min(at) - 1

LastIndex(s, c) ==
    LET at == {i \in 1..Len(s) : s[i] = c}
    IN  IF at = {} THEN -1 ELSE Max(at) - 1

\* strings.Contains(s, substr)
Contains(s, substr) ==
    \E i \in 0..(Len(s) - Len(substr)) :
        SubSeq(s, i + 1, i + Len(substr)) = substr

\* strings.Split(s, c) for a one-character separator c: always at least
\* one piece, empty pieces kept.
RECURSIVE Split(_, _)
Split(s, c) ==
    LET i == Index(s, c)
    IN  IF i < 0 THEN <<s>>
        ELSE <<Slice(s, 0, i)>> \o Split(Slice(s, i + 1, Len(s)), c)

\* strings.Join(elems, c) for a one-character separator c.
RECURSIVE Join(_, _)
Join(elems, c) ==
    IF Len(elems) = 0 THEN <<>>
    ELSE IF Len(elems) = 1 THEN elems[1]
    ELSE elems[1] \o <<c>> \o Join(Tail(elems), c)

\* strings.Fields(s): the maximal runs of non-space characters.
RECURSIVE Fields(_)
Fields(s) ==
    LET nonsp == {i \in 1..Len(s) : ~IsSpace(s[i])}
    IN  IF nonsp = {} THEN <<>>
        ELSE LET b == Min(nonsp)
                 sp == {i \in b..Len(s) : IsSpace(s[i])}
                 e == IF sp = {} THEN Len(s) ELSE Min(sp) - 1
             IN  <<SubSeq(s, b, e)>> \o Fields(SubSeq(s, e + 1, Len(s)))

\* The concatenation of a sequence of strings.
RECURSIVE Flatten(_)
Flatten(toks) ==
    IF Len(toks) = 0 THEN <<>> ELSE toks[1] \o Flatten(Tail(toks))

\* All sequences over S of length at most n.
SeqsUpTo(S, n) == UNION {[1..k -> S] : k \in 0..n}

\* ------------------------------------------------------------ cleanCode
\* The backquote character, written by name (a string constant cannot
\* hold it).
BQ == "backquote"

\* The fence marker: three backquotes.
Fence == <<BQ, BQ, BQ>>

\* cleanCode as it would be if the last line were dropped whether or not
\* it is a closing fence.
cleanCodeDropLast(code) ==
    LET c == TrimSpace(code) IN
    IF HasPrefix(c, Fence)
    THEN LET lines == Split(c, "\n") IN
         IF Len(lines) > 2
         THEN Join(SubSeq(lines, 2, Len(lines) - 1), "\n")
         ELSE c
    ELSE c

\* cleanCode removes markdown fences and trims whitespace from code.
cleanCode(code) ==
    LET c == TrimSpace(code) IN
    IF HasPrefix(c, Fence)
    THEN LET lines == Split(c, "\n") IN
         IF Len(lines) > 2
         THEN LET endIdx == Len(lines) - 1 IN
              IF TrimSpace(lines[endIdx + 1]) = Fence
              THEN Join(SubSeq(lines, 2, endIdx), "\n")
              ELSE Join(SubSeq(lines, 2, Len(lines)), "\n")
         ELSE c
    ELSE c

\* The pieces the inputs of cleanCode are made of.
CodeTokens == {Fence, <<"\n">>, <<" ">>, <<"x">>}

CodeInputs == {Flatten(t) : t \in SeqsUpTo(CodeTokens, MaxCodeTokens)}

\* --------------------------------------------------------- parseFilenames
\* Longest input of parseFilenames, in tokens of NameTokens.
MaxNameTokens == 5

\* The source suffix ".go".
DotGo == <<".", "g", "o">>

\* The cutsets of the two strings.Trim calls: " \"'\t\n" and "\"',[]".
PieceCutset == {" ", "\"", "'", "\t", "\n"}
WordCutset == {"\"", "'", ",", "[", "]"}

\* The loops of parseFilenames: every part is trimmed of the cutset and
\* appended to filenames if it then ends in ".go".
RECURSIVE AppendGoFiles(_, _, _)
AppendGoFiles(filenames, parts, cutset) ==
    IF Len(parts) = 0 THEN filenames
    ELSE LET p == Trim(parts[1], cutset) IN
         AppendGoFiles(IF HasSuffix(p, DotGo)
                       THEN Append(filenames, p) ELSE filenames,
                       Tail(parts), cutset)

\* The entries of names, each kept at its first occurrence only.
RECURSIVE Dedup(_)
Dedup(names) ==
    IF Len(names) = 0 THEN <<>>
    ELSE LET front == Dedup(SubSeq(names, 1, Len(names) - 1))
             last == names[Len(names)]
         IN  IF \E i \in 1..Len(front) : front[i] = last
             THEN front ELSE Append(front, last)

\* parseFilenames as it would be if repeated names were dropped.
parseFilenamesDedup(response) ==
    LET start == Index(response, "[")
        end == LastIndex(response, "]")
        primary == IF start >= 0 /\ end > start
                   THEN AppendGoFiles(<<>>,
                            Split(Slice(response, start + 1, end), ","),
                            PieceCutset)
                   ELSE <<>>
    IN  Dedup(IF Len(primary) = 0
              THEN AppendGoFiles(primary, Fields(response), WordCutset)
              ELSE primary)

\* parseFilenames as it would be if the word extraction ran always.
parseFilenamesAlwaysWords(response) ==
    LET start == Index(response, "[")
        end == LastIndex(response, "]")
        primary == IF start >= 0 /\ end > start
                   THEN AppendGoFiles(<<>>,
                            Split(Slice(response, start + 1, end), ","),
                            PieceCutset)
                   ELSE <<>>
    IN  AppendGoFiles(primary, Fields(response), WordCutset)

\* parseFilenames as it would be if the word extraction kept every word
\* that contains ".go".
parseFilenamesContains(response) ==
    LET start == Index(response, "[")
        end == LastIndex(response, "]")
        primary == IF start >= 0 /\ end > start
                   THEN AppendGoFiles(<<>>,
                            Split(Slice(response, start + 1, end), ","),
                            PieceCutset)
                   ELSE <<>>
        words == Fields(response)
        trimmed == [i \in 1..Len(words) |-> Trim(words[i], WordCutset)]
    IN  IF Len(primary) = 0
        THEN SelectSeq(trimmed, LAMBDA w : Contains(w, DotGo))
        ELSE primary

\* parseFilenames extracts Go filenames from an AI response: the bracketed
\* comma-separated list first, the words of the response if that gave
\* nothing.
parseFilenames(response) ==
    LET start == Index(response, "[")
        end == LastIndex(response, "]")
        primary == IF start >= 0 /\ end > start
                   THEN AppendGoFiles(<<>>,
                            Split(Slice(response, start + 1, end), ","),
                            PieceCutset)
                   ELSE <<>>
    IN  IF Len(primary) = 0
        THEN AppendGoFiles(primary, Fields(response), WordCutset)
        ELSE primary

\* The pieces the inputs of parseFilenames are made of.
NameTokens ==
    {<<"a">> \o DotGo, <<"[">>, <<"]">>, <<",">>, <<" ">>, <<"\"">>, <<"x">>}

NameInputs == {Flatten(t) : t \in SeqsUpTo(NameTokens, MaxNameTokens)}

\* Longest path-like input of parseFilenames, in tokens of PathTokens.
MaxPathTokens == 3

\* The pieces of responses that name files by a path.
PathTokens ==
    {<<"a">> \o DotGo, <<"/">>, <<".", ".">>, <<"[">>, <<"]">>, <<" ">>}

PathInputs == {Flatten(t) : t \in SeqsUpTo(PathTokens, MaxPathTokens)}

\* ------------------------------------------------------- countTestsInCode
\* Longest input of countTestsInCode, in tokens of TestTokens.
MaxTestTokens == 5

\* The prefix "func Test".
FuncTest == <<"f", "u", "n", "c", " ", "T", "e", "s", "t">>

\* The loop of countTestsInCode over the lines still to be looked at.
RECURSIVE CountTestLines(_, _)
CountTestLines(count, lines) ==
    IF Len(lines) = 0 THEN count
    ELSE LET trimmed == TrimSpace(lines[1]) IN
         CountTestLines(IF HasPrefix(trimmed, FuncTest)
                        THEN count + 1 ELSE count,
                        Tail(lines))

\* The same loop as it would be if the lines were not trimmed.
RECURSIVE CountTestLinesNoTrim(_, _)
CountTestLinesNoTrim(count, lines) ==
    IF Len(lines) = 0 THEN count
    ELSE CountTestLinesNoTrim(IF HasPrefix(lines[1], FuncTest)
                              THEN count + 1 ELSE count,
                              Tail(lines))

\* countTestsInCode as it would be if the lines were not trimmed.
countTestsInCodeNoTrim(code) == CountTestLinesNoTrim(0, Split(code, "\n"))

\* countTestsInCode counts Test* functions in Go test code.
countTestsInCode(code) == CountTestLines(0, Split(code, "\n"))

\* The pieces the inputs of countTestsInCode are made of.
TestTokens ==
    {<<"f", "u", "n", "c">>, <<"T", "e", "s", "t">>, <<" ">>, <<"\t">>,
     <<"\n">>, <<"x">>}

TestInputs == {Flatten(t) : t \in SeqsUpTo(TestTokens, MaxTestTokens)}

\* ----------------------------------------------------- encoding/json
\* The JSON whitespace characters and the digits.
JsonWs == {" ", "\t", "\n", "\r"}
Digits == {"0", "1", "2", "3", "4", "5", "6", "7", "8", "9"}

\* The characters that may follow a backslash in a JSON string (without
\* \b, \f and \uXXXX, which no input of the model contains) and what
\* they stand for.
Escapable == {"\"", "\\", "/", "n", "t", "r"}
Unescape(c) ==
    CASE c = "n" -> "\n"
      [] c = "t" -> "\t"
      [] c = "r" -> "\r"
      [] OTHER -> c

\* The result of a failed scan, and of a successful one.
Bad == [ok |-> FALSE, next |-> 0, kind |-> "", str |-> <<>>, members |-> <<>>]
Good(next, kind, str, members) ==
    [ok |-> TRUE, next |-> next, kind |-> kind, str |-> str,
     members |-> members]

\* The first position from i on that holds no JSON whitespace.
SkipWs(s, i) ==
    LET non == {j \in i..Len(s) : s[j] \notin JsonWs}
    IN  IF non = {} THEN Len(s) + 1 ELSE Min(non)

\* s has word at position i.
HasAt(s, i, word) ==
    i + Len(word) - 1 <= Len(s) /\ SubSeq(s, i, i + Len(word) - 1) = word

\* The rest of a string literal whose opening quote precedes position j:
\* escapes are decoded, a raw control character or an unknown escape is a
\* syntax error, as is the end of the input.
RECURSIVE ScanString(_, _, _)
ScanString(s, j, acc) ==
    IF j > Len(s) THEN Bad
    ELSE IF s[j] = "\"" THEN Good(j + 1, "string", acc, <<>>)
    ELSE IF s[j] = "\\"
         THEN IF j + 1 <= Len(s) /\ s[j + 1] \in Escapable
              THEN ScanString(s, j + 2, Append(acc, Unescape(s[j + 1])))
              ELSE Bad
    ELSE IF s[j] \in {"\n", "\t", "\r", "\f"} THEN Bad
    ELSE ScanString(s, j + 1, Append(acc, s[j]))

\* An unsigned integer literal at position i (no fraction or exponent).
ScanNumber(s, i) ==
    LET stop == {j \in i..Len(s) : s[j] \notin Digits}
        endRun == IF stop = {} THEN Len(s) + 1 ELSE Min(stop)
    IN  Good(IF s[i] = "0" THEN i + 1 ELSE endRun, "number", <<>>, <<>>)

\* One JSON value from position i on (leading whitespace skipped); for an
\* object, its members as <<[key, kind, str]>> in order.
RECURSIVE ParseValue(_, _)
RECURSIVE ParseMembers(_, _, _)
RECURSIVE ParseElements(_, _)
ParseValue(s, i0) ==
    LET i == SkipWs(s, i0) IN
    IF i > Len(s) THEN Bad
    ELSE IF s[i] = "\"" THEN ScanString(s, i + 1, <<>>)
    ELSE IF s[i] = "{"
         THEN LET j == SkipWs(s, i + 1) IN
              IF j <= Len(s) /\ s[j] = "}"
              THEN Good(j + 1, "object", <<>>, <<>>)
              ELSE ParseMembers(s, j, <<>>)
    ELSE IF s[i] = "["
         THEN LET j == SkipWs(s, i + 1) IN
              IF j <= Len(s) /\ s[j] = "]"
              THEN Good(j + 1, "array", <<>>, <<>>)
              ELSE ParseElements(s, j)
    ELSE IF s[i] \in Digits THEN ScanNumber(s, i)
    ELSE IF HasAt(s, i, <<"n", "u", "l", "l">>)
         THEN Good(i + 4, "null", <<>>, <<>>)
    ELSE IF HasAt(s, i, <<"t", "r", "u", "e">>)
         THEN Good(i + 4, "bool", <<>>, <<>>)
    ELSE IF HasAt(s, i, <<"f", "a", "l", "s", "e">>)
         THEN Good(i + 5, "bool", <<>>, <<>>)
    ELSE Bad

ParseMembers(s, i, acc) ==
    LET j == SkipWs(s, i) IN
    IF j > Len(s) \/ s[j] # "\"" THEN Bad
    ELSE LET k == ScanString(s, j + 1, <<>>) IN
         IF ~k.ok THEN Bad
         ELSE LET c == SkipWs(s, k.next) IN
              IF c > Len(s) \/ s[c] # ":" THEN Bad
              ELSE LET v == ParseValue(s, c + 1) IN
                   IF ~v.ok THEN Bad
                   ELSE LET e == SkipWs(s, v.next)
                            acc2 == Append(acc, [key |-> k.str,
                                                 kind |-> v.kind,
                                                 str |-> v.str])
                        IN  IF e > Len(s) THEN Bad
                            ELSE IF s[e] = "}"
                                 THEN Good(e + 1, "object", <<>>, acc2)
                            ELSE IF s[e] = ","
                                 THEN ParseMembers(s, e + 1, acc2)
                            ELSE Bad

ParseElements(s, i) ==
    LET v == ParseValue(s, i) IN
    IF ~v.ok THEN Bad
    ELSE LET e == SkipWs(s, v.next) IN
         IF e > Len(s) THEN Bad
         ELSE IF s[e] = "]" THEN Good(e + 1, "array", <<>>, <<>>)
         ELSE IF s[e] = "," THEN ParseElements(s, e + 1)
         ELSE Bad

\* ASCII case folding, by which a key is matched to a field.
UpperCase == <<"A", "B", "C", "D", "E", "F", "G", "H", "I", "J", "K", "L",
               "M", "N", "O", "P", "Q", "R", "S", "T", "U", "V", "W", "X",
               "Y", "Z">>
LowerCase == <<"a", "b", "c", "d", "e", "f", "g", "h", "i", "j", "k", "l",
               "m", "n", "o", "p", "q", "r", "s", "t", "u", "v", "w", "x",
               "y", "z">>
Fold(str) ==
    [i \in 1..Len(str) |->
        IF \E k \in 1..26 : UpperCase[k] = str[i]
        THEN LowerCase[CHOOSE k \in 1..26 : UpperCase[k] = str[i]]
        ELSE str[i]]

\* The names of the two fields of the result struct.
SourceKey == <<"s", "o", "u", "r", "c", "e">>
TestKey == <<"t", "e", "s", "t">>

\* The zero value of the result struct, with the error Unmarshal returns.
ZeroResult == [Source |-> <<>>, Test |-> <<>>, failed |-> FALSE]

\* The members of an object are stored into the struct one after the
\* other: a string sets its field, null leaves it, any other value is a
\* type error that is reported after the remaining members were stored.
RECURSIVE StoreMembers(_, _)
StoreMembers(result, members) ==
    IF Len(members) = 0 THEN result
    ELSE LET m == members[1]
             field == IF Fold(m.key) = SourceKey THEN "Source"
                      ELSE IF Fold(m.key) = TestKey THEN "Test"
                      ELSE ""
             stored ==
                 IF field = "" \/ m.kind = "null" THEN result
                 ELSE IF m.kind # "string"
                      THEN [result EXCEPT !.failed = TRUE]
                 ELSE IF field = "Source"
                      THEN [result EXCEPT !.Source = m.str]
                 ELSE [result EXCEPT !.Test = m.str]
         IN  StoreMembers(stored, Tail(members))

\* json.Unmarshal(data, &result): a syntax error (also trailing data)
\* leaves result alone; null is accepted and stores nothing; a value that
\* is not an object is a type error.
jsonUnmarshal(data, result) ==
    LET v == ParseValue(data, 1) IN
    IF ~v.ok \/ SkipWs(data, v.next) <= Len(data)
    THEN [result EXCEPT !.failed = TRUE]
    ELSE IF v.kind = "null" THEN [result EXCEPT !.failed = FALSE]
    ELSE IF v.kind # "object" THEN [result EXCEPT !.failed = TRUE]
    ELSE StoreMembers([result EXCEPT !.failed = FALSE], v.members)

\* ----------------------------------------------------- parseSourceAndTest
\* Longest input of parseSourceAndTest, in tokens of PairTokens.
MaxPairTokens == 4

\* stripMarkdownFence as it would be if the last line had to be the fence
\* character for character.
stripMarkdownFenceExactLine(s) ==
    LET t == TrimSpace(s) IN
    IF HasPrefix(t, Fence)
    THEN LET lines == Split(t, "\n") IN
         IF Len(lines) > 2
         THEN LET rest == Tail(lines) IN
              IF rest[Len(rest)] = Fence
              THEN Join(SubSeq(rest, 1, Len(rest) - 1), "\n")
              ELSE Join(rest, "\n")
         ELSE t
    ELSE t

\* stripMarkdownFence removes markdown code fences from a response.
stripMarkdownFence(s) ==
    LET t == TrimSpace(s) IN
    IF HasPrefix(t, Fence)
    THEN LET lines == Split(t, "\n") IN
         IF Len(lines) > 2
         THEN LET rest == Tail(lines) IN
              IF TrimSpace(rest[Len(rest)]) = Fence
              THEN Join(SubSeq(rest, 1, Len(rest) - 1), "\n")
              ELSE Join(rest, "\n")
         ELSE t
    ELSE t

\* The literal "source" with its quotes.
QuotedSource == <<"\"">> \o SourceKey \o <<"\"">>

\* parseSourceAndTest as it would be if an empty source were accepted.
parseSourceAndTestAllowEmpty(response) ==
    LET cleaned == stripMarkdownFence(response)
        r1 == jsonUnmarshal(cleaned, ZeroResult)
        start == Index(cleaned, "{")
        end == LastIndex(cleaned, "}")
        jsonStr == Slice(cleaned, start, end + 1)
        r2 == jsonUnmarshal(jsonStr, r1)
    IN  IF ~r1.failed
        THEN [source |-> r1.Source, test |-> r1.Test]
        ELSE IF /\ start >= 0
                /\ end > start
                /\ Contains(jsonStr, QuotedSource)
                /\ ~r2.failed
             THEN [source |-> r2.Source, test |-> r2.Test]
             ELSE [source |-> response, test |-> <<>>]

\* parseSourceAndTest as it would be if the span were parsed whether or
\* not it contains the literal "source".
parseSourceAndTestNoContains(response) ==
    LET cleaned == stripMarkdownFence(response)
        r1 == jsonUnmarshal(cleaned, ZeroResult)
        start == Index(cleaned, "{")
        end == LastIndex(cleaned, "}")
        jsonStr == Slice(cleaned, start, end + 1)
        r2 == jsonUnmarshal(jsonStr, r1)
    IN  IF ~r1.failed /\ r1.Source # <<>>
        THEN [source |-> r1.Source, test |-> r1.Test]
        ELSE IF /\ start >= 0
                /\ end > start
                /\ ~r2.failed
                /\ r2.Source # <<>>
             THEN [source |-> r2.Source, test |-> r2.Test]
             ELSE [source |-> response, test |-> <<>>]

\* parseSourceAndTest as it would be if the last resort returned the
\* stripped text.
parseSourceAndTestReturnsCleaned(response) ==
    LET cleaned == stripMarkdownFence(response)
        r1 == jsonUnmarshal(cleaned, ZeroResult)
        start == Index(cleaned, "{")
        end == LastIndex(cleaned, "}")
        jsonStr == Slice(cleaned, start, end + 1)
        r2 == jsonUnmarshal(jsonStr, r1)
    IN  IF ~r1.failed /\ r1.Source # <<>>
        THEN [source |-> r1.Source, test |-> r1.Test]
        ELSE IF /\ start >= 0
                /\ end > start
                /\ Contains(jsonStr, QuotedSource)
                /\ ~r2.failed
                /\ r2.Source # <<>>
             THEN [source |-> r2.Source, test |-> r2.Test]
             ELSE [source |-> cleaned, test |-> <<>>]

\* parseSourceAndTest extracts source and test code from a JSON response:
\* the whole stripped text as JSON, then the span from the first "{" to
\* the last "}", then the response itself.
parseSourceAndTest(response) ==
    LET cleaned == stripMarkdownFence(response)
        r1 == jsonUnmarshal(cleaned, ZeroResult)
        start == Index(cleaned, "{")
        end == LastIndex(cleaned, "}")
        jsonStr == Slice(cleaned, start, end + 1)
        r2 == jsonUnmarshal(jsonStr, r1)
    IN  IF ~r1.failed /\ r1.Source # <<>>
        THEN [source |-> r1.Source, test |-> r1.Test]
        ELSE IF /\ start >= 0
                /\ end > start
                /\ Contains(jsonStr, QuotedSource)
                /\ ~r2.failed
                /\ r2.Source # <<>>
             THEN [source |-> r2.Source, test |-> r2.Test]
             ELSE [source |-> response, test |-> <<>>]

\* The pieces the inputs of parseSourceAndTest are made of:
\*   {"source":"a\n"    {"source":""    {"Source":"a\n"    ,"test":"b"
\*   }    x    a fence and a newline    a newline and a fence    a blank
ObjA == <<"{">> \o QuotedSource \o <<":", "\"", "a", "\\", "n", "\"">>
ObjEmpty == <<"{">> \o QuotedSource \o <<":", "\"", "\"">>
ObjUpper ==
    <<"{", "\"", "S", "o", "u", "r", "c", "e", "\"", ":", "\"", "a", "\\",
      "n", "\"">>
TestB == <<",", "\"">> \o TestKey \o <<"\"", ":", "\"", "b", "\"">>

PairTokens ==
    {ObjA, ObjEmpty, ObjUpper, TestB, <<"}">>, <<"x">>,
     Fence \o <<"\n">>, <<"\n">> \o Fence, <<" ">>}

PairInputs == {Flatten(t) : t \in SeqsUpTo(PairTokens, MaxPairTokens)}

\* ------------------------------------------------- run-time range checks
\* Go panics on s[a:b] unless 0 <= a <= b <= len(s), and on s[i] unless
\* 0 <= i < len(s).
SliceInRange(s, a, b) == 0 <= a /\ a <= b /\ b <= Len(s)
IndexInRange(s, i) == 0 <= i /\ i < Len(s)

\* The slice expression of parseFilenames as it would be if the guard
\* only asked that both brackets occur.
parseFilenamesPanicsAnyOrder(response) ==
    LET start == Index(response, "[")
        end == LastIndex(response, "]")
    IN  start >= 0 /\ end >= 0 /\ ~SliceInRange(response, start + 1, end)

\* parseFilenames panics: response[start+1 : end] is out of range.
parseFilenamesPanics(response) ==
    LET start == Index(response, "[")
        end == LastIndex(response, "]")
    IN  start >= 0 /\ end > start /\ ~SliceInRange(response, start + 1, end)

\* cleanCode panics: lines[endIdx], lines[1:endIdx] or lines[1:] is out of
\* range.
cleanCodePanics(code) ==
    LET c == TrimSpace(code)
        lines == Split(c, "\n")
        endIdx == Len(lines) - 1
    IN  HasPrefix(c, Fence) /\ Len(lines) > 2
            /\ \/ ~IndexInRange(lines, endIdx)
               \/ ~SliceInRange(lines, 1, endIdx)
               \/ ~SliceInRange(lines, 1, Len(lines))

\* stripMarkdownFence panics: lines[1:], lines[len(lines)-1] or
\* lines[:len(lines)-1], the last two on the shortened lines.
stripMarkdownFencePanics(s) ==
    LET c == TrimSpace(s)
        lines == Split(c, "\n")
    IN  HasPrefix(c, Fence) /\ Len(lines) > 2
            /\ \/ ~SliceInRange(lines, 1, Len(lines))
               \/ LET rest == Tail(lines) IN
                    \/ ~IndexInRange(rest, Len(rest) - 1)
                    \/ ~SliceInRange(rest, 0, Len(rest) - 1)

\* parseSourceAndTest panics: stripMarkdownFence does, or
\* cleaned[start : end+1] is out of range.
parseSourceAndTestPanics(response) ==
    \/ stripMarkdownFencePanics(response)
    \/ LET cleaned == stripMarkdownFence(response)
           start == Index(cleaned, "{")
           end == LastIndex(cleaned, "}")
       IN  start >= 0 /\ end > start /\ ~SliceInRange(cleaned, start, end + 1)

\* countTestsInCode ranges over lines and takes no index or slice.
countTestsInCodePanics(code) == FALSE

\* ------------------------------------------------ the extraction machine
\* The inputs each function is applied to.
Inputs(op) ==
    CASE op = "cleanCode" -> CodeInputs
      [] op = "parseFilenames" -> NameInputs \cup PathInputs
      [] op = "countTestsInCode" -> TestInputs
      [] op = "parseSourceAndTest" -> PairInputs
      [] op = "stripMarkdownFence" -> CodeInputs

Ops == {"cleanCode", "parseFilenames", "countTestsInCode",
        "parseSourceAndTest", "stripMarkdownFence"}

\* The Client is idle; one extraction function and its argument are chosen.
XInit ==
    /\ endpointOK = TRUE
    /\ timeout = 0
    /\ captureDir = ""
    /\ pc = "start"
    /\ attempts = 0
    /\ waits = <<>>
    /\ resp = <<>>
    /\ respBody = <<>>
    /\ deadlineFired = FALSE
    /\ text = ""
    /\ err = NoErr
    /\ captured = 0
    /\ captureErr = ""
    /\ captureFiles = {}
    /\ xop \in Ops
    /\ xin \in Inputs(xop)
    /\ xdone = FALSE
    /\ xout = NoOut
    /\ xpanic = FALSE
    /\ CmdIdle

callvars == <<endpointOK, timeout, captureDir, pc, attempts, waits, resp,
              respBody, deadlineFired, text, err, captured, captureErr,
              captureFiles>>

\* cleanCode(xin) returns.
CallCleanCode ==
    /\ xop = "cleanCode"
    /\ ~xdone /\ ~xpanic
    /\ xpanic' = cleanCodePanics(xin)
    /\ xdone' = ~xpanic'
    /\ xout' = IF xpanic' THEN NoOut
                ELSE [NoOut EXCEPT !.code = cleanCode(xin)]
    /\ UNCHANGED <<callvars, xop, xin, cmdvars>>

\* parseFilenames(xin) returns.
CallParseFilenames ==
    /\ xop = "parseFilenames"
    /\ ~xdone /\ ~xpanic
    /\ xpanic' = parseFilenamesPanics(xin)
    /\ xdone' = ~xpanic'
    /\ xout' = IF xpanic' THEN NoOut
                ELSE [NoOut EXCEPT !.names = parseFilenames(xin)]
    /\ UNCHANGED <<callvars, xop, xin, cmdvars>>

\* countTestsInCode(xin) returns.
CallCountTestsInCode ==
    /\ xop = "countTestsInCode"
    /\ ~xdone /\ ~xpanic
    /\ xpanic' = countTestsInCodePanics(xin)
    /\ xdone' = ~xpanic'
    /\ xout' = IF xpanic' THEN NoOut
                ELSE [NoOut EXCEPT !.count = countTestsInCode(xin)]
    /\ UNCHANGED <<callvars, xop, xin, cmdvars>>

\* parseSourceAndTest(xin) returns.
CallParseSourceAndTest ==
    /\ xop = "parseSourceAndTest"
    /\ ~xdone /\ ~xpanic
    /\ xpanic' = parseSourceAndTestPanics(xin)
    /\ xdone' = ~xpanic'
    /\ xout' = IF xpanic' THEN NoOut
                ELSE LET r == parseSourceAndTest(xin) IN
                     [NoOut EXCEPT !.source = r.source, !.test = r.test]
    /\ UNCHANGED <<callvars, xop, xin, cmdvars>>

\* stripMarkdownFence(xin) returns.
CallStripMarkdownFence ==
    /\ xop = "stripMarkdownFence"
    /\ ~xdone /\ ~xpanic
    /\ xpanic' = stripMarkdownFencePanics(xin)
    /\ xdone' = ~xpanic'
    /\ xout' = IF xpanic' THEN NoOut
                ELSE [NoOut EXCEPT !.code = stripMarkdownFence(xin)]
    /\ UNCHANGED <<callvars, xop, xin, cmdvars>>

XNext ==
    \/ CallCleanCode
    \/ CallParseFilenames
    \/ CallCountTestsInCode
    \/ CallParseSourceAndTest
    \/ CallStripMarkdownFence

SpecExtract == XInit /\ [][XNext]_vars

\* ------------------------------------------------------- claims, cleanCode
\* C12: cleanCode is idempotent: cleaning its own result changes nothing.
C12_CleanCodeIdempotent ==
    (xop = "cleanCode" /\ xdone) => (cleanCode(xout.code) = xout.code)

\* The number of newlines of s, and the text after the first line.
NewlineCount(s) == Cardinality({i \in 1..Len(s) : s[i] = "\n"})
AfterFirstLine(s) == SubSeq(s, Index(s, "\n") + 2, Len(s))
LastLine(s) == SubSeq(s, LastIndex(s, "\n") + 2, Len(s))

\* C19 as stated: the last line is dropped only if it is exactly the
\* fence marker.
C19_DropsOnlyExactFence ==
    (xop = "cleanCode" /\ xdone) =>
        LET t == TrimSpace(xin) IN
        /\ (~HasPrefix(t, Fence)) => (xout.code = t)
        /\ (HasPrefix(t, Fence) /\ NewlineCount(t) >= 2) =>
              IF LastLine(t) = Fence
              THEN xout.code =
                     SubSeq(t, Index(t, "\n") + 2, LastIndex(t, "\n"))
              ELSE xout.code = AfterFirstLine(t)

\* C19, amended: cleanCode trims its input; a trimmed text that starts
\* with a fence and has more than 2 lines loses its first line, and its
\* last line only if that line is a closing fence, possibly indented; what
\* remains is returned as it is, not trimmed again.  A text that does not
\* start with a fence is returned trimmed and otherwise unchanged.
C19_CleanCodeResult ==
    (xop = "cleanCode" /\ xdone) =>
        LET t == TrimSpace(xin) IN
        /\ (~HasPrefix(t, Fence)) => (xout.code = t)
        /\ (HasPrefix(t, Fence) /\ NewlineCount(t) >= 2) =>
              IF TrimSpace(LastLine(t)) = Fence
              THEN xout.code =
                     SubSeq(t, Index(t, "\n") + 2, LastIndex(t, "\n"))
              ELSE xout.code = AfterFirstLine(t)

\* An unterminated fence whose interior starts with a blank: the content
\* line is kept and the leading blank is not trimmed away.
C19_Witness ==
    /\ xop = "cleanCode"
    /\ xdone
    /\ xin = Fence \o <<"\n", " ", "x", "\n", "x">>
    /\ xout.code = <<" ", "x", "\n", "x">>

\* -------------------------------------------------- claims, parseFilenames
\* The pieces of the bracketed list of s (between the first "[" and the
\* last "]"), stripped of quotes and blanks, that end in ".go".
BracketedNames(s) ==
    LET open == Index(s, "[")
        close == LastIndex(s, "]")
    IN  IF open >= 0 /\ close > open
        THEN LET pieces == Split(SubSeq(s, open + 2, close), ",")
                 stripped == [i \in 1..Len(pieces) |->
                                 Trim(pieces[i], {" ", "\t", "\n", "\"", "'"})]
             IN  SelectSeq(stripped, LAMBDA n : HasSuffix(n, DotGo))
        ELSE <<>>

\* The words of s, stripped of quotes, brackets and commas, that end in
\* ".go".
WordNames(s) ==
    LET words == Fields(s)
        stripped == [i \in 1..Len(words) |->
                        Trim(words[i], {"\"", "'", "[", "]", ","})]
    IN  SelectSeq(stripped, LAMBDA n : HasSuffix(n, DotGo))

C14_FallbackIffEmpty ==
    (xop = "parseFilenames" /\ xdone) =>
        IF BracketedNames(xin) = <<>>
        THEN xout.names = WordNames(xin)
        ELSE xout.names = BracketedNames(xin)

\* "a.go xa.go" has no bracketed list: its two words are returned.
C14_Witness ==
    /\ xop = "parseFilenames"
    /\ xdone
    /\ xin = <<"a", ".", "g", "o", " ", "x", "a", ".", "g", "o">>
    /\ BracketedNames(xin) = <<>>
    /\ xout.names = <<<<"a", ".", "g", "o">>, <<"x", "a", ".", "g", "o">>>>

\* C15 as stated: no filename occurs twice in the result and every entry
\* ends in ".go".
C15_NoDuplicates ==
    (xop = "parseFilenames" /\ xdone) =>
        /\ \A i \in 1..Len(xout.names) : HasSuffix(xout.names[i], DotGo)
        /\ \A i, j \in 1..Len(xout.names) :
              (xout.names[i] = xout.names[j]) => (i = j)

\* names occur in s one after the other, from position from on.
RECURSIVE OccurInOrder(_, _, _)
OccurInOrder(names, s, from) ==
    IF Len(names) = 0 THEN TRUE
    ELSE LET n == names[1]
             at == {i \in from..(Len(s) - Len(n) + 1) :
                       SubSeq(s, i, i + Len(n) - 1) = n}
         IN  /\ at # {}
             /\ OccurInOrder(Tail(names), s, Min(at) + Len(n))

\* C15, amended: every entry of the result ends in ".go" and the entries
\* are in the order in which they appear in the text; a filename may occur
\* more than once.
C15_ConformingInOrder ==
    (xop = "parseFilenames" /\ xdone) =>
        /\ \A i \in 1..Len(xout.names) : HasSuffix(xout.names[i], DotGo)
        /\ OccurInOrder(xout.names, xin, 1)

\* "a.go a.go" has no bracketed list: the word is returned twice.
C15_Witness ==
    /\ xop = "parseFilenames"
    /\ xdone
    /\ Index(xin, "[") < 0
    /\ Len(xout.names) = 2
    /\ xout.names[1] = xout.names[2]
    /\ HasSuffix(xout.names[1], DotGo)

\* ------------------------------------------------ claims, countTestsInCode
\* s without its leading whitespace.
StripLeading(s) ==
    LET keep == {i \in 1..Len(s) : ~IsSpace(s[i])}
    IN  IF keep = {} THEN <<>> ELSE SubSeq(s, Min(keep), Len(s))

\* The k-th newline-separated line of s (k from 1), by the positions of
\* the newlines.
LineOf(s, k) ==
    LET nl == {i \in 1..Len(s) : s[i] = "\n"}
        before == {i \in nl : Cardinality({j \in nl : j < i}) = k - 2}
        after == {i \in nl : Cardinality({j \in nl : j < i}) = k - 1}
        from == IF k = 1 THEN 1 ELSE Min(before) + 1
        to == IF after = {} THEN Len(s) ELSE Min(after) - 1
    IN  SubSeq(s, from, to)

\* C20: countTestsInCode returns the number of newline-separated lines
\* whose content, leading whitespace stripped, begins with "func Test".
C20_CountsTestLines ==
    (xop = "countTestsInCode" /\ xdone) =>
        xout.count =
            Cardinality({k \in 1..(NewlineCount(xin) + 1) :
                            HasPrefix(StripLeading(LineOf(xin, k)), FuncTest)})

\* "func Test\nfunc": the test declaration counts, the other line does
\* not.
C20_Witness ==
    /\ xop = "countTestsInCode"
    /\ xdone
    /\ xin = FuncTest \o <<"\n", "f", "u", "n", "c">>
    /\ xout.count = 1

\* ---------------------------------------------- claims, parseSourceAndTest
\* The whole stripped text of s decoded as the {source, test} object.
WholeDecode(s) == jsonUnmarshal(stripMarkdownFence(s), ZeroResult)

\* The whole stripped text decodes without error to a non-empty source.
WholeSucceeds(s) == ~WholeDecode(s).failed /\ WholeDecode(s).Source # <<>>

\* The span of the stripped text of s from its first "{" to its last "}"
\* (empty if there is none).
BraceSpan(s) ==
    LET c == stripMarkdownFence(s)
        open == Index(c, "{")
        close == LastIndex(c, "}")
    IN  IF open >= 0 /\ close > open
        THEN SubSeq(c, open + 1, close + 1) ELSE <<>>

SpanDecode(s) == jsonUnmarshal(BraceSpan(s), ZeroResult)

\* The span exists, contains the literal "source" and decodes without
\* error to a non-empty source.
SpanSucceeds(s) ==
    /\ BraceSpan(s) # <<>>
    /\ Contains(BraceSpan(s), QuotedSource)
    /\ ~SpanDecode(s).failed
    /\ SpanDecode(s).Source # <<>>

\* C16: if the response, stripped of a surrounding fence, parses as a JSON
\* object whose decoded source is not empty, exactly the decoded source
\* and test are returned; if the source decodes to empty the step does not
\* succeed, and the response itself comes back.
C16_WholeTextJson ==
    (xop = "parseSourceAndTest" /\ xdone) =>
        /\ WholeSucceeds(xin) =>
              /\ xout.source = WholeDecode(xin).Source
              /\ xout.test = WholeDecode(xin).Test
        /\ (~WholeDecode(xin).failed /\ WholeDecode(xin).Source = <<>>) =>
              /\ xout.source = xin
              /\ xout.test = <<>>

\* A fenced {"source":"a\n"}: the escape is decoded, the test is empty.
C16_Witness ==
    /\ xop = "parseSourceAndTest"
    /\ xdone
    /\ xin = Fence \o <<"\n">> \o ObjA \o <<"}", "\n">> \o Fence
    /\ xout.source = <<"a", "\n">>
    /\ xout.test = <<>>

\* C17: when the whole text does not parse to a non-empty source, the span
\* from the first "{" to the last "}" of the stripped text is parsed, but
\* only if it contains the literal "source"; its decoded source and test
\* are returned when the source is not empty.
C17_EmbeddedJson ==
    (xop = "parseSourceAndTest" /\ xdone /\ ~WholeSucceeds(xin)) =>
        /\ SpanSucceeds(xin) =>
              /\ xout.source = SpanDecode(xin).Source
              /\ xout.test = SpanDecode(xin).Test
        /\ (~Contains(BraceSpan(xin), QuotedSource)) =>
              /\ xout.source = xin
              /\ xout.test = <<>>

\* x{"source":"a\n","test":"b"}: the object after the commentary is
\* recovered.
C17_Witness ==
    /\ xop = "parseSourceAndTest"
    /\ xdone
    /\ xin = <<"x">> \o ObjA \o TestB \o <<"}">>
    /\ ~WholeSucceeds(xin)
    /\ xout.source = <<"a", "\n">>
    /\ xout.test = <<"b">>

\* C18: when neither JSON strategy succeeds, the source returned is the
\* entire original input, neither trimmed nor stripped of its fence, and
\* the test is empty.
C18_LastResort ==
    (xop = "parseSourceAndTest" /\ xdone
        /\ ~WholeSucceeds(xin) /\ ~SpanSucceeds(xin))
        => (xout.source = xin /\ xout.test = <<>>)

\* A fenced x preceded by a blank: it comes back with blank and fences.
C18_Witness ==
    /\ xop = "parseSourceAndTest"
    /\ xdone
    /\ xin = <<" ">> \o Fence \o <<"\n", "x", "\n">> \o Fence
    /\ stripMarkdownFence(xin) = <<"x">>
    /\ xout.source = xin
    /\ xout.test = <<>>

\* ------------------------------------------------------- claims, totality
\* C21: parseFilenames, cleanCode, parseSourceAndTest and countTestsInCode
\* are total: whatever the input, the function never panics, and once it
\* has run it has returned a result.
C21_ExtractionTotal ==
    /\ ~xpanic
    /\ xdone =>
         /\ xout.names \in Seq(Seq(STRING))
         /\ xout.count \in Nat

\* parseFilenames has returned on a "]" that comes before the "[".
C21_Witness ==
    /\ xop = "parseFilenames"
    /\ xdone
    /\ xin = <<"]", "[">>
    /\ xout.names = <<>>

\* ----------------------------------------------- claims, fence stripping
\* C26: stripMarkdownFence computes the same function as cleanCode: applied
\* to the same string, either one returns what the other would.
C26_StripEqualsClean ==
    (xop \in {"cleanCode", "stripMarkdownFence"} /\ xdone) =>
        /\ xout.code = cleanCode(xin)
        /\ xout.code = stripMarkdownFence(xin)

\* stripMarkdownFence has dropped an indented closing fence, as cleanCode
\* does.
C26_Witness ==
    /\ xop = "stripMarkdownFence"
    /\ xdone
    /\ xin = Fence \o <<"\n", "x", "\n", " ">> \o Fence
    /\ xout.code = <<"x">>

\* ------------------------------------------------- claims, empty source
\* C29: parseSourceAndTest returns an empty source if and only if its input
\* is the empty string; every non-empty input, a blank one or an object
\* with an empty "source" included, gives a non-empty source.
C29_EmptySourceIffEmptyInput ==
    (xop = "parseSourceAndTest" /\ xdone) =>
        (xout.source = <<>> <=> xin = <<>>)

\* parseSourceAndTest has returned on the empty string.
C29_Witness ==
    /\ xop = "parseSourceAndTest"
    /\ xdone
    /\ xin = <<>>
    /\ xout.source = <<>>
    /\ xout.test = <<>>

\* ------------------------------------------- claims, names and the output
\* directory
\* The components of a path, and the names that leave the directory they
\* are joined to.
PathComponents(name) == Split(name, "/")

HasSeparator(name) == \E i \in 1..Len(name) : name[i] = "/"

HasDotDot(name) ==
    \E i \in 1..Len(PathComponents(name)) :
        PathComponents(name)[i] = <<".", ".">>

\* C30: no filename returned by parseFilenames contains a path separator
\* or a ".." component, whatever the response, so that every file written
\* lies inside the output directory.
C30_NamesInsideOutputDir ==
    (xop = "parseFilenames" /\ xdone) =>
        \A i \in 1..Len(xout.names) :
            ~HasSeparator(xout.names[i]) /\ ~HasDotDot(xout.names[i])

\* ------------------------------------------------ claims, Call as a whole
\* C24: captureExchange is invoked only after a response has been received
\* and has passed validation, at most once per Call, and never when Call
\* fails or when no capture directory is configured; nothing is written
\* without it.
C24_RecorderOnlyAfterSuccess ==
    /\ captured <= 1
    /\ captured > 0 =>
         /\ captureDir # ""
         /\ BodyRead
         /\ Outcome(resp[1].status, respBody[1]).err = NoErr
         /\ err = NoErr
         /\ pc = "done"
    /\ (pc = "done" /\ err # NoErr) => captured = 0
    /\ captureDir = "" => captured = 0
    /\ captured = 0 => captureFiles = {}

\* A Call with capture configured has returned its text after one capture
\* that wrote both files.
C24_Witness ==
    /\ pc = "done"
    /\ captureDir = "dir"
    /\ captured = 1
    /\ captureFiles = {"request", "response"}
    /\ err = NoErr
    /\ text = "X"

Targets == {"dir", "file", "missing", "staterr"}

\* The directory worked on: the target, or its parent for a file.
DirOf(target) == IF target = "dir" THEN "target" ELSE "parent"

\* ------------------------------------------------------------- validate
\* Most *.go files in the target directory.
MaxFiles == 2

\* The values of --format.
Formats == {"plain", "json", "yaml", "jsonl", "toml"}

\* IsStructuredOutput()
IsStructuredOutput(format) == format \in {"json", "yaml", "toml", "jsonl"}

\* What analyzer.ParseGoFile(f) returns for a file: "" for nil, or the
\* message of the read or syntax error.
ParseErrors == {"", "syntax error"}

\* The listings filepath.Glob can return: files named by their position
\* in the sorted listing, each with what ParseGoFile will say of it.
Listings ==
    UNION {[1..n -> ParseErrors] : n \in 0..MaxFiles}

\* The ValidateResult of line 55.
NewValidateResult(dir) ==
    [Target |-> dir, FileCount |-> 0, Valid |-> TRUE, Files |-> <<>>]

\* PrintOutput(w, data): what the writer then holds and the error
\* returned.
PrintError == IF env.stdoutOK THEN "" ELSE "write error"
Printed(data) == IF env.stdoutOK THEN printed \o <<data>> ELSE printed

\* validate starts on some target, format and listing.
ValidateInit ==
    /\ endpointOK = TRUE
    /\ timeout = 0
    /\ captureDir = ""
    /\ pc = "start"
    /\ attempts = 0
    /\ waits = <<>>
    /\ resp = <<>>
    /\ respBody = <<>>
    /\ deadlineFired = FALSE
    /\ text = ""
    /\ err = NoErr
    /\ captured = 0
    /\ captureErr = ""
    /\ captureFiles = {}
    /\ xop = "none"
    /\ xin = <<>>
    /\ xdone = FALSE
    /\ xout = NoOut
    /\ xpanic = FALSE
    /\ cmd = "validate"
    /\ cpc = "start"
    /\ env \in [target : Targets, format : Formats, globErr : BOOLEAN,
                matches : Listings, stdoutOK : BOOLEAN]
    /\ idx = 0
    /\ res = <<>>
    /\ ret = ""
    /\ ran = <<>>
    /\ written = <<>>
    /\ printed = <<>>

\* runValidate up to the loop: os.Stat, filepath.Glob, the empty
\* directory.
ValidateStart ==
    /\ cmd = "validate"
    /\ cpc = "start"
    /\ IF env.target = "missing"
       THEN /\ ret' = "not found"
            /\ cpc' = "done"
            /\ UNCHANGED <<res, printed>>
       ELSE IF env.target = "staterr"
       THEN /\ cpc' = "panic"
            /\ UNCHANGED <<res, ret, printed>>
       ELSE IF env.globErr
       THEN /\ res' = NewValidateResult(DirOf(env.target))
            /\ ret' = "finding files"
            /\ cpc' = "done"
            /\ UNCHANGED printed
       ELSE /\ res' = [NewValidateResult(DirOf(env.target))
                          EXCEPT !.FileCount = Len(env.matches)]
            /\ IF Len(env.matches) = 0
               THEN /\ cpc' = "done"
                    /\ IF env.format \in {"json", "yaml"}
                       THEN /\ printed' = Printed(res')
                            /\ ret' = PrintError
                       ELSE UNCHANGED <<ret, printed>>
               ELSE /\ cpc' = "loop"
                    /\ UNCHANGED <<ret, printed>>
    /\ UNCHANGED <<callvars, xvars, cmd, env, idx, ran, written>>

\* One iteration of the loop over matches; jsonl streams the file's entry
\* and ignores the encoder's error.
ValidateFile ==
    /\ cmd = "validate"
    /\ cpc = "loop"
    /\ idx < Len(env.matches)
    /\ LET e == env.matches[idx + 1]
           vf == [Name |-> idx + 1, Valid |-> e = "", Error |-> e]
       IN  /\ res' = [res EXCEPT !.Files = Append(@, vf),
                                 !.Valid = @ /\ vf.Valid]
           /\ printed' = IF env.format = "jsonl" THEN Printed(vf)
                         ELSE printed
    /\ idx' = idx + 1
    /\ UNCHANGED <<callvars, xvars, cmd, cpc, env, ret, ran, written>>

\* ValidateFinish as it would be if a structured format failed on an
\* invalid file the way the text format does.
ValidateFinishFailsOnInvalid ==
    /\ cmd = "validate"
    /\ cpc = "loop"
    /\ idx = Len(env.matches)
    /\ cpc' = "done"
    /\ IF env.format # "jsonl" /\ IsStructuredOutput(env.format)
       THEN /\ printed' = Printed(res)
            /\ ret' = IF ~res.Valid THEN "validation failed"
                      ELSE PrintError
       ELSE /\ ret' = IF res.Valid THEN "" ELSE "validation failed"
            /\ UNCHANGED printed
    /\ UNCHANGED <<callvars, xvars, cmd, env, idx, res, ran, written>>

\* runValidate after the loop: jsonl and text fail on an invalid file,
\* the other structured formats print the result and return what the
\* printer returns.
ValidateFinish ==
    /\ cmd = "validate"
    /\ cpc = "loop"
    /\ idx = Len(env.matches)
    /\ cpc' = "done"
    /\ IF env.format # "jsonl" /\ IsStructuredOutput(env.format)
       THEN /\ printed' = Printed(res)
            /\ ret' = PrintError
       ELSE /\ ret' = IF res.Valid THEN "" ELSE "validation failed"
            /\ UNCHANGED printed
    /\ UNCHANGED <<callvars, xvars, cmd, env, idx, res, ran, written>>

ValidateNext ==
    \/ ValidateStart
    \/ ValidateFile
    \/ ValidateFinish

SpecValidate == ValidateInit /\ [][ValidateNext]_vars

\* ------------------------------------------------------ claims, validate
\* validate ran in JSON mode on a target that exists, listed it and could
\* write its output.
ValidateJsonReported ==
    /\ cmd = "validate"
    /\ cpc = "done"
    /\ env.format = "json"
    /\ env.target \in {"dir", "file"}
    /\ ~env.globErr
    /\ env.stdoutOK

Checks ==
    << [name |-> "gofmt", tool |-> "gofmt"],
       [name |-> "go vet", tool |-> "go"],
       [name |-> "golangci-lint", tool |-> "golangci-lint"],
       [name |-> "gosec", tool |-> "gosec"],
       [name |-> "go build", tool |-> "go"],
       [name |-> "go test", tool |-> "go"] >>

\* The tools runCheck looks up with exec.LookPath before running them.
OptionalTools == {"golangci-lint", "gosec"}

\* The CheckResult of line 66.
NewCheckResult(dir) == [Target |-> dir, Passed |-> TRUE, Checks |-> <<>>]

\* The check at this position is not run: its flag is set, or it is an
\* optional tool that is not installed.
SkippedByFlag(k) == env.skip[k]
NotInstalled(k) ==
    Checks[k].tool \in OptionalTools /\ Checks[k].tool \notin env.installed

\* check starts on some target and flags.
CheckInit ==
    /\ endpointOK = TRUE
    /\ timeout = 0
    /\ captureDir = ""
    /\ pc = "start"
    /\ attempts = 0
    /\ waits = <<>>
    /\ resp = <<>>
    /\ respBody = <<>>
    /\ deadlineFired = FALSE
    /\ text = ""
    /\ err = NoErr
    /\ captured = 0
    /\ captureErr = ""
    /\ captureFiles = {}
    /\ xop = "none"
    /\ xin = <<>>
    /\ xdone = FALSE
    /\ xout = NoOut
    /\ xpanic = FALSE
    /\ cmd = "check"
    /\ cpc = "start"
    /\ env \in [target : Targets, JSON : BOOLEAN, JSONL : BOOLEAN,
                SkipChecks : BOOLEAN,
                skip : [1..Len(Checks) -> BOOLEAN],
                installed : SUBSET OptionalTools,
                stdoutOK : BOOLEAN]
    /\ idx = 0
    /\ res = <<>>
    /\ ret = ""
    /\ ran = <<>>
    /\ written = <<>>
    /\ printed = <<>>

\* runCheck up to the loop: os.Stat and --skip-checks.
CheckStart ==
    /\ cmd = "check"
    /\ cpc = "start"
    /\ IF env.target = "missing"
       THEN /\ ret' = "not found"
            /\ cpc' = "done"
            /\ UNCHANGED <<res, printed>>
       ELSE IF env.target = "staterr"
       THEN /\ cpc' = "panic"
            /\ UNCHANGED <<res, ret, printed>>
       ELSE /\ res' = NewCheckResult(DirOf(env.target))
            /\ IF env.SkipChecks
               THEN /\ cpc' = "done"
                    /\ IF env.JSON
                       THEN /\ printed' = Printed(res')
                            /\ ret' = PrintError
                       ELSE UNCHANGED <<ret, printed>>
               ELSE /\ cpc' = "loop"
                    /\ UNCHANGED <<ret, printed>>
    /\ UNCHANGED <<callvars, xvars, cmd, env, idx, ran, written>>

\* The CheckStatus of a check that is not run.
SkippedStatus(k) ==
    [Name |-> Checks[k].name, Passed |-> TRUE, Skipped |-> TRUE,
     Error |-> IF SkippedByFlag(k) THEN "" ELSE "not installed"]

\* The CheckStatus of a check whose tool returned.
RunStatus(k, ok) ==
    [Name |-> Checks[k].name, Passed |-> ok, Skipped |-> FALSE,
     Error |-> IF ok THEN "" ELSE "tool output"]

\* CheckTool as it would be if an optional tool that is not installed
\* counted as a failed check.
CheckToolMissingFails ==
    /\ cmd = "check"
    /\ cpc = "loop"
    /\ idx < Len(Checks)
    /\ LET k == idx + 1 IN
       \E ok \in BOOLEAN :
         LET run == ~SkippedByFlag(k) /\ ~NotInstalled(k)
             status ==
                IF SkippedByFlag(k) THEN SkippedStatus(k)
                ELSE IF NotInstalled(k)
                THEN [SkippedStatus(k) EXCEPT !.Passed = FALSE]
                ELSE RunStatus(k, ok)
         IN  /\ run \/ ok
             /\ ran' = IF run
                       THEN Append(ran, [name |-> Checks[k].name, ok |-> ok])
                       ELSE ran
             /\ res' = [res EXCEPT !.Checks = Append(@, status),
                                   !.Passed = @ /\ status.Passed]
             /\ printed' = IF env.JSONL THEN Printed(status) ELSE printed
    /\ idx' = idx + 1
    /\ UNCHANGED <<callvars, xvars, cmd, cpc, env, ret, written>>

\* One iteration of the loop over checks: the check is skipped by its
\* flag, skipped because its optional tool is not installed, or run with
\* runTool, which succeeds or fails; jsonl streams the status.
CheckTool ==
    /\ cmd = "check"
    /\ cpc = "loop"
    /\ idx < Len(Checks)
    /\ LET k == idx + 1 IN
       \E ok \in BOOLEAN :
         LET run == ~SkippedByFlag(k) /\ ~NotInstalled(k)
             status == IF run THEN RunStatus(k, ok) ELSE SkippedStatus(k)
         IN  /\ run \/ ok
             /\ ran' = IF run
                       THEN Append(ran, [name |-> Checks[k].name, ok |-> ok])
                       ELSE ran
             /\ res' = [res EXCEPT !.Checks = Append(@, status),
                                   !.Passed = @ /\ (run => ok)]
             /\ printed' = IF env.JSONL THEN Printed(status) ELSE printed
    /\ idx' = idx + 1
    /\ UNCHANGED <<callvars, xvars, cmd, cpc, env, ret, written>>

\* runCheck after the loop: jsonl and text fail when a check failed, JSON
\* encodes the result and returns what the encoder returns.
CheckFinish ==
    /\ cmd = "check"
    /\ cpc = "loop"
    /\ idx = Len(Checks)
    /\ cpc' = "done"
    /\ IF env.JSONL
       THEN /\ ret' = IF res.Passed THEN "" ELSE "some checks failed"
            /\ UNCHANGED printed
       ELSE IF env.JSON
       THEN /\ printed' = Printed(res)
            /\ ret' = PrintError
       ELSE /\ ret' = IF res.Passed THEN "" ELSE "some checks failed"
            /\ UNCHANGED printed
    /\ UNCHANGED <<callvars, xvars, cmd, env, idx, res, ran, written>>

CheckNext ==
    \/ CheckStart
    \/ CheckTool
    \/ CheckFinish

SpecCheck == CheckInit /\ [][CheckNext]_vars

\* --------------------------------------------------------- claims, check
\* check ran to its end on a target that exists.
CheckReported ==
    /\ cmd = "check"
    /\ cpc = "done"
    /\ env.target \in {"dir", "file"}

\* The tool of the check at position k has been run.
WasRun(k) == \E j \in 1..Len(ran) : ran[j].name = Checks[k].name

\* C23: check reports passed = true if and only if no tool it ran failed;
\* a check skipped by its flag or an optional tool that is not installed
\* is recorded as skipped and passed and is not run; with --skip-checks no
\* tool is run and the result is passed = true with no error.
C23_PassedIffNoToolFailed ==
    CheckReported =>
        /\ res.Passed <=> (\A j \in 1..Len(ran) : ran[j].ok)
        /\ ~env.SkipChecks =>
             /\ (env.JSONL \/ ~env.JSON) => (ret = "" <=> res.Passed)
             /\ Len(res.Checks) = Len(Checks)
             /\ \A k \in 1..Len(Checks) :
                  /\ res.Checks[k].Name = Checks[k].name
                  /\ IF SkippedByFlag(k) \/ NotInstalled(k)
                     THEN /\ res.Checks[k].Skipped
                          /\ res.Checks[k].Passed
                          /\ ~WasRun(k)
                     ELSE /\ ~res.Checks[k].Skipped
                          /\ WasRun(k)
        /\ env.SkipChecks =>
             /\ ran = <<>>
             /\ res.Passed
             /\ res.Checks = <<>>
             /\ (~env.JSON \/ env.stdoutOK) => ret = ""

\* gofmt skipped by its flag, gosec not installed, the four other tools
\* run without a failure: passed.
C23_Witness ==
    /\ CheckReported
    /\ ~env.SkipChecks
    /\ env.skip = [k \in 1..Len(Checks) |-> k = 1]
    /\ env.installed = {"golangci-lint"}
    /\ Len(ran) = 4
    /\ res.Passed
    /\ res.Checks[1].Skipped
    /\ res.Checks[4].Skipped
    /\ res.Checks[4].Error = "not installed"
    /\ ret = ""

\* -------------------------------------------------------------- generate
\* What runGenerate finds of its input file: it is read and parsed, it
\* does not exist, it cannot be read, or it is not Go.
Sources == {"ok", "missing", "unreadable", "unparsable"}

\* The texts the planning Call returns in the model: nothing, a word, a
\* list of two names, one name twice, and a name in the parent directory.
PlanTexts ==
    { <<>>,
      <<"x">>,
      <<"[", "\"", "a">> \o DotGo \o <<"\"", ",", "\"", "b">> \o DotGo
          \o <<"\"", "]">>,
      <<"a">> \o DotGo \o <<" ", "a">> \o DotGo,
      <<"[", ".", ".", "/", "a">> \o DotGo \o <<"]">> }

\* The texts a per-file Call returns in the model: nothing, bare code,
\* fenced code, a {source, test} object and a {source} object.
GenTexts ==
    { <<>>,
      <<"x">>,
      Fence \o <<"\n", "x", "\n">> \o Fence,
      ObjA \o TestB \o <<"}">>,
      ObjA \o <<"}">> }

\* analyzer.CountLines(content)
CountLines(content) ==
    IF content = <<>> THEN 1 ELSE NewlineCount(content) + 1

\* strings.TrimSuffix(fname, ".go") + "_test.go"
TestName(fname) ==
    (IF HasSuffix(fname, DotGo)
     THEN SubSeq(fname, 1, Len(fname) - Len(DotGo)) ELSE fname)
        \o <<"_", "t", "e", "s", "t">> \o DotGo

\* A GeneratedFile.
GeneratedFile(name, lines, status, error, testCount) ==
    [Name |-> name, Lines |-> lines, Status |-> status, Error |-> error,
     TestCount |-> testCount]

Failed(name, error) == GeneratedFile(name, 0, "failed", error, 0)
Created(name, code) == GeneratedFile(name, CountLines(code), "created", "", 0)
Skipped(name) == GeneratedFile(name, 0, "skipped", "", 0)

\* hasTests: the test file next to the input was found and read, and
\* --skip-tests is not set.
hasTests == env.testFile /\ ~env.SkipTests

\* parseFilenames on each planning text.
PlanNames == [t \in PlanTexts |-> parseFilenames(t)]

\* The texts a per-file Call can return, each with what the loop body
\* extracts from it: parseSourceAndTest, cleanCode of the source, of the
\* test and of the whole text, countTestsInCode of the test code.
Parsed == {<<t, parseSourceAndTest(t)>> : t \in GenTexts}

ParsedCleaned == {<<tp[1], tp[2], cleanCode(tp[2].test)>> : tp \in Parsed}

Answers ==
    {[text |-> a[1],
      source |-> a[2].source,
      sourceCode |-> cleanCode(a[2].source),
      testCode |-> a[3],
      testCount |-> countTestsInCode(a[3]),
      code |-> cleanCode(a[1])] : a \in ParsedCleaned}

\* filenames := parseFilenames(planResult)
filenames == PlanNames[env.planResult]

\* The entries of a dry run: each planned name, followed by its test name
\* unless --skip-tests is set.
RECURSIVE DryRunFiles(_)
DryRunFiles(fnames) ==
    IF Len(fnames) = 0 THEN <<>>
    ELSE <<Skipped(fnames[1])>>
            \o (IF env.SkipTests THEN <<>>
                ELSE <<Skipped(TestName(fnames[1]))>>)
            \o DryRunFiles(Tail(fnames))

\* A Call or a tool run of runGenerate, as recorded in ran.
Step(kind, name) == [kind |-> kind, name |-> name]

\* generate starts on some input file, flags and planning answer.
GenerateInit ==
    /\ endpointOK = TRUE
    /\ timeout = 0
    /\ captureDir = ""
    /\ pc = "start"
    /\ attempts = 0
    /\ waits = <<>>
    /\ resp = <<>>
    /\ respBody = <<>>
    /\ deadlineFired = FALSE
    /\ text = ""
    /\ err = NoErr
    /\ captured = 0
    /\ captureErr = ""
    /\ captureFiles = {}
    /\ xop = "none"
    /\ xin = <<>>
    /\ xdone = FALSE
    /\ xout = NoOut
    /\ xpanic = FALSE
    /\ cmd = "generate"
    /\ cpc = "start"
    /\ env \in [source : Sources, DryRun : BOOLEAN, JSON : BOOLEAN,
                SkipTests : BOOLEAN, SkipValidation : BOOLEAN,
                testFile : BOOLEAN, planErr : BOOLEAN,
                planResult : PlanTexts, stdoutOK : BOOLEAN]
    /\ idx = 0
    /\ res = <<>>
    /\ ret = ""
    /\ ran = <<>>
    /\ written = <<>>
    /\ printed = <<>>

\* The GenerateResult of line 102.
NewGenerateResult ==
    [DryRun |-> env.DryRun, Files |-> <<>>, ValidationPassed |-> FALSE,
     ValidationError |-> ""]

\* GenerateStart as it would be if --dry-run were not looked at.
GenerateStartIgnoresDryRun ==
    /\ cmd = "generate"
    /\ cpc = "start"
    /\ IF env.source # "ok"
       THEN /\ ret' = CASE env.source = "missing" -> "file not found"
                        [] env.source = "unreadable" -> "reading file"
                        [] OTHER -> "parsing file"
            /\ cpc' = "done"
            /\ UNCHANGED <<res, ran, printed>>
       ELSE /\ ran' = <<Step("plan", <<>>)>>
            /\ IF env.planErr
               THEN /\ res' = NewGenerateResult
                    /\ ret' = "planning failed"
                    /\ cpc' = "done"
                    /\ UNCHANGED printed
               ELSE IF Len(filenames) = 0
               THEN /\ res' = NewGenerateResult
                    /\ ret' = "could not determine files to create"
                    /\ cpc' = "done"
                    /\ UNCHANGED printed
               ELSE /\ res' = NewGenerateResult
                    /\ cpc' = "loop"
                    /\ UNCHANGED <<ret, printed>>
    /\ UNCHANGED <<callvars, xvars, cmd, env, idx, written>>

\* runGenerate up to the loop: the input file, the planning Call,
\* parseFilenames and the dry run.
GenerateStart ==
    /\ cmd = "generate"
    /\ cpc = "start"
    /\ IF env.source # "ok"
       THEN /\ ret' = CASE env.source = "missing" -> "file not found"
                        [] env.source = "unreadable" -> "reading file"
                        [] OTHER -> "parsing file"
            /\ cpc' = "done"
            /\ UNCHANGED <<res, ran, printed>>
       ELSE /\ ran' = <<Step("plan", <<>>)>>
            /\ IF env.planErr
               THEN /\ res' = NewGenerateResult
                    /\ ret' = "planning failed"
                    /\ cpc' = "done"
                    /\ UNCHANGED printed
               ELSE IF Len(filenames) = 0
               THEN /\ res' = NewGenerateResult
                    /\ ret' = "could not determine files to create"
                    /\ cpc' = "done"
                    /\ UNCHANGED printed
               ELSE IF env.DryRun
               THEN /\ res' = [NewGenerateResult
                                  EXCEPT !.Files = DryRunFiles(filenames)]
                    /\ cpc' = "done"
                    /\ IF env.JSON
                       THEN /\ printed' = Printed(res')
                            /\ ret' = PrintError
                       ELSE UNCHANGED <<ret, printed>>
               ELSE /\ res' = NewGenerateResult
                    /\ cpc' = "loop"
                    /\ UNCHANGED <<ret, printed>>
    /\ UNCHANGED <<callvars, xvars, cmd, env, idx, written>>

\* The outcome of the test file of a pair: nothing when the test code is
\* empty, otherwise a write that fails or succeeds.
PairTestOutcome(testFname, testCode, testCount, writeOK) ==
    IF testCode = <<>> THEN [files |-> <<>>, written |-> <<>>]
    ELSE IF ~writeOK
    THEN [files |-> <<Failed(testFname, "write error")>>, written |-> <<>>]
    ELSE [files |-> <<GeneratedFile(testFname, CountLines(testCode),
                                    "created", "", testCount)>>,
          written |-> <<testFname>>]

\* The branch of the loop body that generates a source file and its test
\* file from one Call.
GeneratePair(fname, callOK, response, writeOK, testWriteOK) ==
    LET testFname == TestName(fname)
        calls == <<Step("generate", fname)>>
    IN  IF ~callOK
        THEN [files |-> <<Failed(fname, "call error"),
                          Failed(testFname, "call error")>>,
              written |-> <<>>, calls |-> calls]
        ELSE LET parsed == response IN
             IF parsed.source = <<>>
             THEN [files |-> <<Failed(fname,
                                "could not parse source from response")>>,
                   written |-> <<>>, calls |-> calls]
             ELSE LET sourceCode == parsed.sourceCode IN
                  IF ~writeOK
                  THEN [files |-> <<Failed(fname, "write error")>>,
                        written |-> <<>>, calls |-> calls]
                  ELSE LET t == PairTestOutcome(testFname, parsed.testCode,
                                    parsed.testCount, testWriteOK)
                       IN  [files |-> <<Created(fname, sourceCode)>>
                                         \o t.files,
                            written |-> <<fname>> \o t.written,
                            calls |-> calls]

\* The branch of the loop body that generates a source file alone and,
\* when there are no tests and --skip-tests is not set, test stubs from a
\* second Call.
GenerateSourceOnly(fname, d) ==
    LET testFname == TestName(fname)
        calls == <<Step("generate", fname)>>
        callOK == d.callOK
        response == d.response
        writeOK == d.writeOK
        stubOK == d.stubOK
        stubText == d.stubText
        testWriteOK == d.testWriteOK
    IN  IF ~callOK
        THEN [files |-> <<Failed(fname, "call error")>>,
              written |-> <<>>, calls |-> calls]
        ELSE LET code == response.code IN
             IF ~writeOK
             THEN [files |-> <<Failed(fname, "write error")>>,
                   written |-> <<>>, calls |-> calls]
             ELSE IF ~(~hasTests /\ ~env.SkipTests)
             THEN [files |-> <<Created(fname, code)>>,
                   written |-> <<fname>>, calls |-> calls]
             ELSE LET calls2 == calls \o <<Step("stubs", testFname)>> IN
                  IF ~stubOK
                  THEN [files |-> <<Created(fname, code),
                                    Failed(testFname, "call error")>>,
                        written |-> <<fname>>, calls |-> calls2]
                  ELSE IF ~testWriteOK
                  THEN [files |-> <<Created(fname, code),
                                    Failed(testFname, "write error")>>,
                        written |-> <<fname>>, calls |-> calls2]
                  ELSE [files |-> <<Created(fname, code),
                                    Created(testFname,
                                            stubText.code)>>,
                        written |-> <<fname, testFname>>,
                        calls |-> calls2]

\* What one iteration of the loop meets: whether each Call and each write
\* succeeds, and the texts the Calls return.
Draws ==
    LET answers == Answers IN
    [callOK : BOOLEAN, response : answers, writeOK : BOOLEAN,
     stubOK : BOOLEAN, stubText : answers, testWriteOK : BOOLEAN]

\* The loop body for one planned filename.
LoopBody(fname, d) ==
    IF hasTests /\ ~env.SkipTests
    THEN GeneratePair(fname, d.callOK, d.response, d.writeOK, d.testWriteOK)
    ELSE GenerateSourceOnly(fname, d)

\* GenerateFile as it would be if a failure for one filename ended the
\* command with an error and no entry.
GenerateFileAbortsOnFailure ==
    /\ cmd = "generate"
    /\ cpc = "loop"
    /\ idx < Len(filenames)
    /\ \E d \in Draws :
         LET o == LoopBody(filenames[idx + 1], d)
             failed == \E j \in 1..Len(o.files) : o.files[j].Status = "failed"
         IN  /\ ran' = ran \o o.calls
             /\ written' = written \o o.written
             /\ IF failed
                THEN /\ cpc' = "done"
                     /\ ret' = "generation failed"
                     /\ UNCHANGED <<res, idx>>
                ELSE /\ res' = [res EXCEPT !.Files = @ \o o.files]
                     /\ idx' = idx + 1
                     /\ UNCHANGED <<cpc, ret>>
    /\ UNCHANGED <<callvars, xvars, cmd, env, printed>>

\* One iteration of the loop over filenames: the Call or Calls, the
\* parse, the writes, and the entries they leave in result.Files.
GenerateFile ==
    /\ cmd = "generate"
    /\ cpc = "loop"
    /\ idx < Len(filenames)
    /\ \E d \in Draws :
         LET o == LoopBody(filenames[idx + 1], d)
         IN  /\ ran' = ran \o o.calls
             /\ written' = written \o o.written
             /\ res' = [res EXCEPT !.Files = @ \o o.files]
    /\ idx' = idx + 1
    /\ UNCHANGED <<callvars, xvars, cmd, cpc, env, ret, printed>>

\* runGenerate after the loop: go test on the output directory unless
\* --skip-validation is set, then the result is encoded (JSON) or the
\* closing message printed.
GenerateFinish ==
    /\ cmd = "generate"
    /\ cpc = "loop"
    /\ idx = Len(filenames)
    /\ cpc' = "done"
    /\ \E testsOK \in BOOLEAN :
         /\ (env.SkipValidation => testsOK)
         /\ ran' = IF env.SkipValidation THEN ran
                   ELSE Append(ran, Step("go test", <<>>))
         /\ res' = IF env.SkipValidation THEN res
                   ELSE [res EXCEPT
                           !.ValidationPassed = testsOK,
                           !.ValidationError =
                               IF testsOK THEN "" ELSE "go test output"]
         /\ IF env.JSON
            THEN /\ printed' = Printed(res')
                 /\ ret' = PrintError
            ELSE UNCHANGED <<ret, printed>>
    /\ UNCHANGED <<callvars, xvars, cmd, env, idx, written>>

GenerateNext ==
    \/ GenerateStart
    \/ GenerateFile
    \/ GenerateFinish

SpecGenerate == GenerateInit /\ [][GenerateNext]_vars

\* ------------------------------------------------------ claims, generate
\* Nothing has been written and no Call but the planning Call was made.
NoGeneration ==
    /\ written = <<>>
    /\ \A j \in 1..Len(ran) : ran[j].kind = "plan"

\* The planning Call succeeded with a plan that is not empty.
Planned ==
    /\ cmd = "generate"
    /\ cpc # "start"
    /\ env.source = "ok"
    /\ ~env.planErr
    /\ filenames # <<>>

\* C27: generate writes no file and makes no per-file Call when the
\* planning Call fails, when the plan is empty or when --dry-run is set;
\* a dry run ends with every planned filename in the result with status
\* "skipped", and the result is what --json prints.
C27_NothingWrittenWithoutPlan ==
    cmd = "generate" =>
        /\ (env.planErr \/ filenames = <<>> \/ env.DryRun) => NoGeneration
        /\ (env.planErr \/ filenames = <<>> \/ env.DryRun) => cpc # "loop"
        /\ (Planned /\ env.DryRun) =>
             /\ cpc = "done"
             /\ \A k \in 1..Len(filenames) :
                  \E j \in 1..Len(res.Files) :
                      /\ res.Files[j].Name = filenames[k]
                      /\ res.Files[j].Status = "skipped"
             /\ \A j \in 1..Len(res.Files) : res.Files[j].Status = "skipped"
             /\ (env.JSON /\ env.stdoutOK) => printed = <<res>>
             /\ ~env.JSON => ret = ""

\* A dry run of a plan of two names with tests: four skipped entries, one
\* Call, nothing written.
C27_Witness ==
    /\ Planned
    /\ env.DryRun
    /\ ~env.SkipTests
    /\ cpc = "done"
    /\ Len(filenames) = 2
    /\ Len(res.Files) = 4
    /\ res.Files[3].Name = filenames[2]
    /\ res.Files[3].Status = "skipped"
    /\ Len(ran) = 1
    /\ written = <<>>

\* Every name of fnames has, in this order, an entry of files with status
\* "created" or "failed".
RECURSIVE InPlanOrder(_, _)
InPlanOrder(fnames, files) ==
    IF Len(fnames) = 0 THEN TRUE
    ELSE IF Len(files) = 0 THEN FALSE
    ELSE IF /\ files[1].Name = fnames[1]
            /\ files[1].Status \in {"created", "failed"}
         THEN InPlanOrder(Tail(fnames), Tail(files))
         ELSE InPlanOrder(fnames, Tail(files))

\* The names the per-file generation Calls were made for, in order.
GenerationCalls ==
    LET IsGenerate(c) == c.kind = "generate"
        calls == SelectSeq(ran, IsGenerate)
    IN  [k \in 1..Len(calls) |-> calls[k].name]

\* C28: in the loop over the plan a failed Call, parse or write leaves a
\* "failed" entry and the loop goes on: no failure ends the command, each
\* planned filename gets its Call, and after the loop every planned
\* filename has an entry with status "created" or "failed", in plan order.
C28_EveryPlannedFileRecorded ==
    (Planned /\ ~env.DryRun) =>
        /\ ret # "" => (cpc = "done" /\ env.JSON /\ ~env.stdoutOK)
        /\ GenerationCalls = SubSeq(filenames, 1, idx)
        /\ InPlanOrder(SubSeq(filenames, 1, idx), res.Files)
        /\ \A j \in 1..Len(res.Files) :
             res.Files[j].Status \in {"created", "failed"}
        /\ cpc = "done" => idx = Len(filenames)

\* The Call for the first of two planned names failed, the second file
\* was created all the same.
C28_Witness ==
    /\ Planned
    /\ ~env.DryRun
    /\ cpc = "done"
    /\ Len(filenames) = 2
    /\ idx = 2
    /\ Len(res.Files) = 2
    /\ res.Files[1].Name = filenames[1]
    /\ res.Files[1].Status = "failed"
    /\ res.Files[2].Name = filenames[2]
    /\ res.Files[2].Status = "created"
    /\ written = <<filenames[2]>>

====
